---- MODULE Spec2Model ----
(***************************************************************************)
(* A model of the six-phase compiler of this repository: Lexer             *)
(* (src/src/main.ts), Parser / CodeGenerator / Optimizer                   *)
(* (src/unnamed/part_000), IRGenerator (src/unnamed/part_001),             *)
(* SemanticAnalyzer and Compiler (src/src/compiler).                       *)
(*                                                                         *)
(* Strings are TLA+ strings (TLC evaluates Len, SubSeq and \o on them), so *)
(* a source text, a lexeme and an IR name are what they are in the code.   *)
(***************************************************************************)
EXTENDS Integers, Sequences, FiniteSets, TLC

VARIABLES
  optInput,    \* Optimizer.optimize: the argument ir of the first call
  optimized,   \* optimize: let optimized
  changed,     \* optimize: let changed
  optPc,       \* optimize: "while" (the loop test), "for" (a pass is next), "return"
  passI,       \* optimize: the index into passes of the next pass, from 1
  passIn,      \* the list the last pass that ran was called with
  optCall,     \* which call of optimize this is: 1, or 2 (on the result of the
               \* first); 0 for the call compile makes
  optFirst     \* the list the first call returned

optVars == <<optInput, optimized, changed, optPc, passI, passIn, optCall, optFirst>>

VARIABLES
  source,      \* Lexer.source
  position,    \* Lexer.position
  line,        \* Lexer.line
  column,      \* Lexer.column
  tokens,      \* Lexer.tokens
  lexPc,       \* tokenize: "scan" (in the while loop), "done" (returned), "error" (threw)
  lexError     \* the LexicalError tokenize threw

lexVars == <<source, position, line, column, tokens, lexPc, lexError>>

VARIABLES
  scopes,        \* SemanticAnalyzer.scopes
  currentScope,  \* SemanticAnalyzer.currentScope
  errors,        \* SemanticAnalyzer.errors
  inherited,     \* what the analyzer wrote on the members of Object.prototype
  instructions,  \* IRGenerator.instructions
  tempCounter,   \* IRGenerator.tempCounter
  labelCounter,  \* IRGenerator.labelCounter
  output,        \* CodeGenerator.output
  indentLevel,   \* CodeGenerator.indentLevel
  compPc,        \* compile: "idle" (never called), "optimize" (inside optimize),
                 \* "returned"
  compSource,    \* compile: the argument source of the last call
  compResult,    \* compile: const result
  compCalls,     \* how many times compile was called on this Compiler
  prevSource,    \* the argument of the call before the last
  prevResult     \* the result of the call before the last

compVars ==
  <<scopes, currentScope, errors, inherited, instructions, tempCounter,
    labelCounter, output, indentLevel, compPc, compSource, compResult, compCalls,
    prevSource, prevResult>>

VARIABLES
  parsePc,     \* Parser.parse: "idle" (not called), "returned", "thrown"
  parseOut,    \* Parser.parse: what the call gave: the node returned or the
               \* SyntaxError thrown, and Parser.current (cur) after it
  semPc        \* SemanticAnalyzer.analyze: "idle" (not called), "returned"

frontVars == <<parsePc, parseOut, semPc>>

VARIABLES
  genPc,       \* IRGenerator.generate: "idle" (not called), "returned", "thrown"
  genAst,      \* IRGenerator.generate: the argument ast of the last call
  genCalls     \* how many times generate was called on this IRGenerator

genVars == <<genPc, genAst, genCalls>>

vars == <<optVars, lexVars, compVars, frontVars, genVars>>

(***************************************************************************)
(* JavaScript values, as held in IRInstruction.args (args: any[]).         *)
(* One record shape for every value, so that any two values can be         *)
(* compared.  k is the kind; s the text of a string; n/d a number as the   *)
(* exact fraction n/d in lowest terms with d > 0, or d = 0 for Infinity    *)
(* (n = 1), -Infinity (n = -1) and NaN (n = 0); a boolean keeps n = 1 for  *)
(* true; l the elements of an array.  IEEE rounding and the sign of zero   *)
(* are not modelled.                                                       *)
(***************************************************************************)
Str(s) == [k |-> "string", s |-> s, n |-> 0, d |-> 1, l |-> <<>>]

Abs(i) == IF i < 0 THEN -i ELSE i

Sign(i) == IF i < 0 THEN -1 ELSE IF i > 0 THEN 1 ELSE 0

RECURSIVE Gcd(_, _)
Gcd(a, b) == IF b = 0 THEN a ELSE Gcd(b, a % b)

Rat(n, d) ==
  IF d = 0
  THEN [k |-> "number", s |-> "", n |-> Sign(n), d |-> 0, l |-> <<>>]
  ELSE LET g == Gcd(Abs(n), Abs(d))
       IN [k |-> "number", s |-> "", n |-> (Sign(d) * n) \div g,
           d |-> Abs(d) \div g, l |-> <<>>]

Num(n) == Rat(n, 1)

Bool(b) == [k |-> "boolean", s |-> "", n |-> IF b THEN 1 ELSE 0, d |-> 1, l |-> <<>>]

Null == [k |-> "null", s |-> "", n |-> 0, d |-> 1, l |-> <<>>]

Undefined == [k |-> "undefined", s |-> "", n |-> 0, d |-> 1, l |-> <<>>]

Arr(l) == [k |-> "array", s |-> "", n |-> 0, d |-> 1, l |-> l]

IsString(v) == v.k = "string"

IsNumber(v) == v.k = "number"

IsBoolean(v) == v.k = "boolean"

IsNaN(v) == v.k = "number" /\ v.d = 0 /\ v.n = 0

(* a === b.  Arrays occur only as the argument list of CALL, CALL_INDIRECT *)
(* and FUNCTION_START, which no pass compares.                           *)
StrictEq(a, b) == a = b /\ ~IsNaN(a)

(* a < b on two numbers *)
NumLess(a, b) ==
  IF IsNaN(a) \/ IsNaN(b) THEN FALSE
  ELSE IF a.d = 0 /\ b.d = 0 THEN a.n < b.n
  ELSE a.n * b.d < b.n * a.d

NumAdd(a, b) ==
  IF IsNaN(a) \/ IsNaN(b) THEN Rat(0, 0)
  ELSE IF a.d = 0 /\ b.d = 0 THEN (IF a.n = b.n THEN a ELSE Rat(0, 0))
  ELSE IF a.d = 0 THEN a
  ELSE IF b.d = 0 THEN b
  ELSE Rat(a.n * b.d + b.n * a.d, a.d * b.d)

NumNeg(a) == Rat(-a.n, a.d)

NumMul(a, b) == Rat(a.n * b.n, a.d * b.d)

NumDiv(a, b) ==
  IF IsNaN(a) \/ IsNaN(b) THEN Rat(0, 0)
  ELSE IF a.d = 0
       THEN (IF b.d = 0 THEN Rat(0, 0)
             ELSE Rat(IF b.n < 0 THEN -a.n ELSE a.n, 0))
       ELSE Rat(a.n * b.d, a.d * b.n)

(* String(i) for an integer i *)
RECURSIVE NatToStr(_)
NatToStr(i) ==
  IF i < 10 THEN SubSeq("0123456789", i + 1, i + 1)
  ELSE NatToStr(i \div 10) \o SubSeq("0123456789", (i % 10) + 1, (i % 10) + 1)

IntToStr(i) == IF i < 0 THEN "-" \o NatToStr(-i) ELSE NatToStr(i)

(* `${v}`: the text a template literal gives a value.  A number that is    *)
(* no integer is written n/d, a text no other value of the model has.      *)
RECURSIVE ToStr(_)
ToStr(v) ==
  CASE v.k = "string" -> v.s
    [] v.k = "number" ->
         IF v.d = 1 THEN IntToStr(v.n)
         ELSE IF v.d = 0
              THEN (IF v.n = 0 THEN "NaN"
                    ELSE IF v.n > 0 THEN "Infinity" ELSE "-Infinity")
              ELSE IntToStr(v.n) \o "/" \o IntToStr(v.d)
    [] v.k = "boolean" -> IF v.n = 1 THEN "true" ELSE "false"
    [] v.k = "null" -> "null"
    [] v.k = "undefined" -> "undefined"
    [] v.k = "array" ->
         IF v.l = <<>> THEN ""
         ELSE IF Len(v.l) = 1 THEN ToStr(v.l[1])
         ELSE ToStr(v.l[1]) \o "," \o ToStr(Arr(Tail(v.l)))

(* s.startsWith(p) *)
StartsWith(s, p) == Len(s) >= Len(p) /\ SubSeq(s, 1, Len(p)) = p

(***************************************************************************)
(* Lexer (src/src/main.ts).  A Lexer object is the record                  *)
(* [source, position, line, column, tokens, error]; error is the           *)
(* LexicalError a method threw, NoLexError while none was thrown.          *)
(***************************************************************************)
CharAt(s, i) == SubSeq(s, i, i)

(* the character '\0', which no source text of the model holds *)
NUL == ""

NoLexError == [message |-> "", line |-> 0, column |-> 0]

LexicalError(message, ln, col) == [message |-> message, line |-> ln, column |-> col]

(* new Lexer(source), and the fields as tokenize resets them *)
NewLexer(src) ==
  [source |-> src, position |-> 0, line |-> 1, column |-> 1, tokens |-> <<>>,
   error |-> NoLexError]

Token(type, value, ln, col) == [type |-> type, value |-> value, line |-> ln, column |-> col]

Lexer_isAtEnd(L) == L.position >= Len(L.source)

(* advance() returns this.source[this.position - 1] of the new position *)
Lexer_advance(L) == [L EXCEPT !.position = @ + 1, !.column = @ + 1]

Lexer_peek(L) == IF Lexer_isAtEnd(L) THEN NUL ELSE CharAt(L.source, L.position + 1)

peekNext(L) ==
  IF L.position + 1 >= Len(L.source) THEN NUL ELSE CharAt(L.source, L.position + 2)

(* match(expected): [ok, L], L the lexer after the call *)
Lexer_match(L, expected) ==
  IF Lexer_isAtEnd(L) THEN [ok |-> FALSE, L |-> L]
  ELSE IF CharAt(L.source, L.position + 1) # expected THEN [ok |-> FALSE, L |-> L]
  ELSE [ok |-> TRUE, L |-> Lexer_advance(L)]

addToken(L, type, value) ==
  [L EXCEPT !.tokens = Append(@, Token(type, value, L.line, L.column - Len(value)))]

isDigit(char) == char \in {"0", "1", "2", "3", "4", "5", "6", "7", "8", "9"}

isAlpha(char) ==
  char \in {"a", "b", "c", "d", "e", "f", "g", "h", "i", "j", "k", "l", "m",
            "n", "o", "p", "q", "r", "s", "t", "u", "v", "w", "x", "y", "z",
            "A", "B", "C", "D", "E", "F", "G", "H", "I", "J", "K", "L", "M",
            "N", "O", "P", "Q", "R", "S", "T", "U", "V", "W", "X", "Y", "Z",
            "_"}

isAlphaNumeric(char) == isAlpha(char) \/ isDigit(char)

(* the keywords, each with value.toUpperCase() *)
KeywordType ==
  [kw \in {"if", "else", "while", "for", "return", "int", "float", "void",
           "string", "bool", "true", "false", "null", "function", "var"} |->
     CASE kw = "if" -> "IF" [] kw = "else" -> "ELSE" [] kw = "while" -> "WHILE"
       [] kw = "for" -> "FOR" [] kw = "return" -> "RETURN" [] kw = "int" -> "INT"
       [] kw = "float" -> "FLOAT" [] kw = "void" -> "VOID"
       [] kw = "string" -> "STRING" [] kw = "bool" -> "BOOL"
       [] kw = "true" -> "TRUE" [] kw = "false" -> "FALSE"
       [] kw = "null" -> "NULL" [] kw = "function" -> "FUNCTION"
       [] kw = "var" -> "VAR"]

isKeyword(value) == value \in DOMAIN KeywordType

(* while (this.isDigit(this.peek())) value += this.advance();  gives [L, value] *)
RECURSIVE DigitLoop(_, _)
DigitLoop(L, value) ==
  IF isDigit(Lexer_peek(L))
  THEN DigitLoop(Lexer_advance(L), value \o Lexer_peek(L))
  ELSE [L |-> L, value |-> value]

(* while (this.isAlphaNumeric(this.peek())) value += this.advance(); *)
RECURSIVE AlphaNumericLoop(_, _)
AlphaNumericLoop(L, value) ==
  IF isAlphaNumeric(Lexer_peek(L))
  THEN AlphaNumericLoop(Lexer_advance(L), value \o Lexer_peek(L))
  ELSE [L |-> L, value |-> value]

(* the loop of string(): up to the closing quote or the end of the source *)
RECURSIVE StringLoop(_, _)
StringLoop(L, value) ==
  IF Lexer_peek(L) # "\"" /\ ~Lexer_isAtEnd(L)
  THEN LET L1 == IF Lexer_peek(L) = "\n"
                 THEN [L EXCEPT !.line = @ + 1, !.column = 1]
                 ELSE L
       IN StringLoop(Lexer_advance(L1), value \o Lexer_peek(L))
  ELSE [L |-> L, value |-> value]

Lexer_string(L) ==
  LET startColumn == L.column - 1
      r == StringLoop(L, "")
  IN IF Lexer_isAtEnd(r.L)
     THEN [r.L EXCEPT !.error = LexicalError("Unterminated string", r.L.line, startColumn)]
     ELSE addToken(Lexer_advance(r.L), "STRING", r.value)

Lexer_number(L) ==
  LET r1 == DigitLoop(L, CharAt(L.source, L.position))
      r2 == IF Lexer_peek(r1.L) = "." /\ isDigit(peekNext(r1.L))
            THEN DigitLoop(Lexer_advance(r1.L), r1.value \o ".")
            ELSE r1
  IN addToken(r2.L, "NUMBER", r2.value)

Lexer_identifier(L) ==
  LET r == AlphaNumericLoop(L, CharAt(L.source, L.position))
      type == IF isKeyword(r.value) THEN KeywordType[r.value] ELSE "IDENTIFIER"
  IN addToken(r.L, type, r.value)

(* the loop of the comment case: up to the end of the line *)
RECURSIVE SkipComment(_)
SkipComment(L) ==
  IF Lexer_peek(L) # "\n" /\ ~Lexer_isAtEnd(L) THEN SkipComment(Lexer_advance(L)) ELSE L

(* this.addToken(this.match('=') ? two : one, this.match('=') ? char= : char): *)
(* the two arguments are evaluated in turn, each with its own call of match *)
OneOrTwo(L, char, one, two) ==
  LET m1 == Lexer_match(L, "=")
      m2 == Lexer_match(m1.L, "=")
  IN addToken(m2.L, IF m1.ok THEN two ELSE one,
              IF m2.ok THEN char \o "=" ELSE char)

SingleCharType ==
  [c \in {"(", ")", "{", "}", "[", "]", ",", ".", ";", "+", "-", "*"} |->
     CASE c = "(" -> "LEFT_PAREN" [] c = ")" -> "RIGHT_PAREN"
       [] c = "{" -> "LEFT_BRACE" [] c = "}" -> "RIGHT_BRACE"
       [] c = "[" -> "LEFT_BRACKET" [] c = "]" -> "RIGHT_BRACKET"
       [] c = "," -> "COMMA" [] c = "." -> "DOT" [] c = ";" -> "SEMICOLON"
       [] c = "+" -> "PLUS" [] c = "-" -> "MINUS" [] c = "*" -> "STAR"]

scanToken(L0) ==
  LET L == Lexer_advance(L0)
      char == CharAt(L.source, L.position)
  IN CASE char \in DOMAIN SingleCharType -> addToken(L, SingleCharType[char], char)
       [] char = "/" ->
            LET m == Lexer_match(L, "/")
            IN IF m.ok THEN SkipComment(m.L) ELSE addToken(L, "SLASH", char)
       [] char = "=" -> OneOrTwo(L, char, "EQUAL", "EQUAL_EQUAL")
       [] char = "!" -> OneOrTwo(L, char, "BANG", "BANG_EQUAL")
       [] char = "<" -> OneOrTwo(L, char, "LESS", "LESS_EQUAL")
       [] char = ">" -> OneOrTwo(L, char, "GREATER", "GREATER_EQUAL")
       [] char \in {" ", "\r", "\t"} -> L
       [] char = "\n" -> [L EXCEPT !.line = @ + 1, !.column = 1]
       [] char = "\"" -> Lexer_string(L)
       [] OTHER ->
            IF isDigit(char) THEN Lexer_number(L)
            ELSE IF isAlpha(char) THEN Lexer_identifier(L)
            ELSE [L EXCEPT !.error =
                    LexicalError("Unexpected character: " \o char, L.line, L.column - 1)]

(* tokenize(): the Lexer after the call; its tokens are the result unless  *)
(* error is set                                                            *)
RECURSIVE TokenizeLoop(_)
TokenizeLoop(L) ==
  IF L.error # NoLexError THEN L
  ELSE IF Lexer_isAtEnd(L) THEN addToken(L, "EOF", "")
  ELSE TokenizeLoop(scanToken(L))

tokenize(src) == TokenizeLoop(NewLexer(src))

(***************************************************************************)
(* Parser (src/unnamed/part_000).  An ASTNode is a record with a type      *)
(* field and the fields of its kind; a null child is NullNode.  A parsing  *)
(* method is an operator of the token list and the cursor current (an      *)
(* index from 0) and gives [ok, node, cur, error]: the node it returned    *)
(* and the cursor after the call, or, when it threw, the SyntaxError and   *)
(* the cursor at that moment.                                              *)
(***************************************************************************)
NullNode == [type |-> "null"]

NoToken == Token("", "", 0, 0)

NoSyntaxError == [message |-> "", token |-> NoToken]

(* private error(token, message): it makes the SyntaxError, the caller     *)
(* decides whether to throw it                                             *)
Parser_error(token, message) == [message |-> message, token |-> token]

Ok(node, cur) == [ok |-> TRUE, node |-> node, cur |-> cur, error |-> NoSyntaxError]

Throw(err, cur) == [ok |-> FALSE, node |-> NullNode, cur |-> cur, error |-> err]

Parser_peek(toks, cur) == toks[cur + 1]

Parser_previous(toks, cur) == toks[cur]

Parser_isAtEnd(toks, cur) == Parser_peek(toks, cur).type = "EOF"

check(toks, cur, type) ==
  IF Parser_isAtEnd(toks, cur) THEN FALSE ELSE Parser_peek(toks, cur).type = type

(* advance(): the cursor after the call *)
Parser_advance(toks, cur) == IF ~Parser_isAtEnd(toks, cur) THEN cur + 1 ELSE cur

(* match(...types): whether one of the types is next (the cursor then     *)
(* moves by one)                                                          *)
Parser_match(toks, cur, types) == \E type \in types : check(toks, cur, type)

(* consume(type, message) *)
consume(toks, cur, type, message) ==
  IF check(toks, cur, type)
  THEN Ok(Parser_peek(toks, cur), Parser_advance(toks, cur))
  ELSE Throw(Parser_error(Parser_peek(toks, cur), message), cur)

(* parseFloat of the text of a NUMBER token: digits, or digits.digits *)
RECURSIVE DigitsToNat(_, _)
DigitsToNat(text, acc) ==
  IF text = "" THEN acc
  ELSE DigitsToNat(Tail(text),
         10 * acc + (CHOOSE dgt \in 0..9 : CharAt("0123456789", dgt + 1) = Head(text)))

RECURSIVE Pow10(_)
Pow10(e) == IF e = 0 THEN 1 ELSE 10 * Pow10(e - 1)

parseFloat(text) ==
  LET dots == {i \in 1..Len(text) : CharAt(text, i) = "."}
  IN IF dots = {} THEN Num(DigitsToNat(text, 0))
     ELSE LET dot == CHOOSE i \in dots : TRUE
              whole == SubSeq(text, 1, dot - 1)
              frac == SubSeq(text, dot + 1, Len(text))
          IN Rat(DigitsToNat(whole \o frac, 0), Pow10(Len(frac)))

(* synchronize(): the cursor after the call *)
RECURSIVE SynchronizeLoop(_, _)
SynchronizeLoop(toks, cur) ==
  IF Parser_isAtEnd(toks, cur) THEN cur
  ELSE IF Parser_previous(toks, cur).type = "SEMICOLON" THEN cur
  ELSE IF Parser_peek(toks, cur).type \in
            {"CLASS", "FUNCTION", "VAR", "FOR", "IF", "WHILE", "RETURN"} THEN cur
  ELSE SynchronizeLoop(toks, Parser_advance(toks, cur))

synchronize(toks, cur) == SynchronizeLoop(toks, Parser_advance(toks, cur))

(* the limit of parameters and of arguments *)
MaxParams == 255

(* The parsing methods call one another through ParseRule, which calls    *)
(* the method of the given name; arg is the argument callee of finishCall. *)
RECURSIVE ParseRule(_, _, _, _)

RECURSIVE BlockLoop(_, _, _), LogicalOrLoop(_, _, _),
          LogicalAndLoop(_, _, _), EqualityLoop(_, _, _),
          ComparisonLoop(_, _, _), TermLoop(_, _, _), FactorLoop(_, _, _),
          CallLoop(_, _, _), ArgLoop(_, _, _)

(* try { ... } catch (error) { this.synchronize(); throw error; } *)
(* a variant whose catch block synchronises and goes on, with no node *)
declarationGoesOn(toks, cur) ==
  LET r == IF check(toks, cur, "VAR") THEN ParseRule("varDeclaration", toks, cur + 1, NullNode)
           ELSE IF check(toks, cur, "FUNCTION") THEN ParseRule("functionDeclaration", toks, cur + 1, NullNode)
           ELSE ParseRule("statement", toks, cur, NullNode)
  IN IF r.ok THEN r ELSE Ok(NullNode, synchronize(toks, r.cur))

declaration(toks, cur) ==
  LET r == IF check(toks, cur, "VAR") THEN ParseRule("varDeclaration", toks, cur + 1, NullNode)
           ELSE IF check(toks, cur, "FUNCTION") THEN ParseRule("functionDeclaration", toks, cur + 1, NullNode)
           ELSE ParseRule("statement", toks, cur, NullNode)
  IN IF r.ok THEN r ELSE Throw(r.error, synchronize(toks, r.cur))

varDeclaration(toks, cur) ==
  LET name == consume(toks, cur, "IDENTIFIER", "Expect variable name.")
  IN IF ~name.ok THEN name
     ELSE LET init == IF check(toks, name.cur, "EQUAL")
                      THEN ParseRule("expression", toks, name.cur + 1, NullNode)
                      ELSE Ok(NullNode, name.cur)
          IN IF ~init.ok THEN init
             ELSE LET semi == consume(toks, init.cur, "SEMICOLON",
                                      "Expect ';' after variable declaration.")
                  IN IF ~semi.ok THEN semi
                     ELSE Ok([type |-> "VariableDeclaration",
                              name |-> name.node.value,
                              initializer |-> init.node], semi.cur)

(* do { if (parameters.length >= 255) this.error(...);                     *)
(*      parameters.push(this.consume(IDENTIFIER, ...).value);             *)
(* } while (this.match(COMMA));   the error of the first line is made and *)
(* dropped: nothing throws it, whatever parameters.length is.  Round i    *)
(* of the loop, from 0, reads the tokens at cur + 2i and cur + 2i + 1;    *)
(* last is the round that throws or ends the loop.  Gives [ok, node: the  *)
(* list, cur, error].                                                     *)
ParamLoop(toks, cur, parameters) ==
  LET last == CHOOSE i \in 0..Len(toks) :
                /\ \A j \in 0..(i - 1) :
                     /\ check(toks, cur + 2 * j, "IDENTIFIER")
                     /\ check(toks, cur + 2 * j + 1, "COMMA")
                /\ \/ ~check(toks, cur + 2 * i, "IDENTIFIER")
                   \/ ~check(toks, cur + 2 * i + 1, "COMMA")
  IN IF ~check(toks, cur + 2 * last, "IDENTIFIER")
     THEN consume(toks, cur + 2 * last, "IDENTIFIER", "Expect parameter name.")
     ELSE [ok |-> TRUE,
           node |-> parameters \o
                      [i \in 1..(last + 1) |-> Parser_peek(toks, cur + 2 * (i - 1)).value],
           cur |-> cur + 2 * last + 1, error |-> NoSyntaxError]

functionDeclaration(toks, cur) ==
  LET name == consume(toks, cur, "IDENTIFIER", "Expect function name.")
  IN IF ~name.ok THEN name
     ELSE LET lp == consume(toks, name.cur, "LEFT_PAREN", "Expect '(' after function name.")
          IN IF ~lp.ok THEN lp
             ELSE LET ps == IF ~check(toks, lp.cur, "RIGHT_PAREN")
                            THEN ParamLoop(toks, lp.cur, <<>>)
                            ELSE [ok |-> TRUE, node |-> <<>>, cur |-> lp.cur,
                                  error |-> NoSyntaxError]
                  IN IF ~ps.ok THEN Throw(ps.error, ps.cur)
                     ELSE LET rp == consume(toks, ps.cur, "RIGHT_PAREN",
                                            "Expect ')' after parameters.")
                          IN IF ~rp.ok THEN rp
                             ELSE LET lb == consume(toks, rp.cur, "LEFT_BRACE",
                                                    "Expect '{' before function body.")
                                  IN IF ~lb.ok THEN lb
                                     ELSE LET body == ParseRule("block", toks, lb.cur, NullNode)
                                          IN IF ~body.ok THEN body
                                             ELSE Ok([type |-> "FunctionDeclaration",
                                                      name |-> name.node.value,
                                                      params |-> ps.node,
                                                      body |-> body.node], body.cur)

statement(toks, cur) ==
  IF check(toks, cur, "IF") THEN ParseRule("ifStatement", toks, cur + 1, NullNode)
  ELSE IF check(toks, cur, "WHILE") THEN ParseRule("whileStatement", toks, cur + 1, NullNode)
  ELSE IF check(toks, cur, "FOR") THEN ParseRule("forStatement", toks, cur + 1, NullNode)
  ELSE IF check(toks, cur, "RETURN") THEN ParseRule("returnStatement", toks, cur + 1, NullNode)
  ELSE IF check(toks, cur, "LEFT_BRACE") THEN ParseRule("block", toks, cur + 1, NullNode)
  ELSE ParseRule("expressionStatement", toks, cur, NullNode)

ifStatement(toks, cur) ==
  LET lp == consume(toks, cur, "LEFT_PAREN", "Expect '(' after 'if'.")
  IN IF ~lp.ok THEN lp
     ELSE LET condition == ParseRule("expression", toks, lp.cur, NullNode)
          IN IF ~condition.ok THEN condition
             ELSE LET rp == consume(toks, condition.cur, "RIGHT_PAREN",
                                    "Expect ')' after if condition.")
                  IN IF ~rp.ok THEN rp
                     ELSE LET thenBranch == ParseRule("statement", toks, rp.cur, NullNode)
                          IN IF ~thenBranch.ok THEN thenBranch
                             ELSE LET elseBranch ==
                                        IF check(toks, thenBranch.cur, "ELSE")
                                        THEN ParseRule("statement", toks, thenBranch.cur + 1, NullNode)
                                        ELSE Ok(NullNode, thenBranch.cur)
                                  IN IF ~elseBranch.ok THEN elseBranch
                                     ELSE Ok([type |-> "IfStatement",
                                              condition |-> condition.node,
                                              thenBranch |-> thenBranch.node,
                                              elseBranch |-> elseBranch.node],
                                             elseBranch.cur)

whileStatement(toks, cur) ==
  LET lp == consume(toks, cur, "LEFT_PAREN", "Expect '(' after 'while'.")
  IN IF ~lp.ok THEN lp
     ELSE LET condition == ParseRule("expression", toks, lp.cur, NullNode)
          IN IF ~condition.ok THEN condition
             ELSE LET rp == consume(toks, condition.cur, "RIGHT_PAREN",
                                    "Expect ')' after condition.")
                  IN IF ~rp.ok THEN rp
                     ELSE LET body == ParseRule("statement", toks, rp.cur, NullNode)
                          IN IF ~body.ok THEN body
                             ELSE Ok([type |-> "WhileStatement",
                                      condition |-> condition.node,
                                      body |-> body.node], body.cur)

forStatement(toks, cur) ==
  LET lp == consume(toks, cur, "LEFT_PAREN", "Expect '(' after 'for'.")
  IN IF ~lp.ok THEN lp
     ELSE LET initializer ==
                IF check(toks, lp.cur, "SEMICOLON") THEN Ok(NullNode, lp.cur + 1)
                ELSE IF check(toks, lp.cur, "VAR") THEN ParseRule("varDeclaration", toks, lp.cur + 1, NullNode)
                ELSE ParseRule("expressionStatement", toks, lp.cur, NullNode)
          IN IF ~initializer.ok THEN initializer
             ELSE LET condition == IF ~check(toks, initializer.cur, "SEMICOLON")
                                   THEN ParseRule("expression", toks, initializer.cur, NullNode)
                                   ELSE Ok(NullNode, initializer.cur)
                  IN IF ~condition.ok THEN condition
                     ELSE LET semi == consume(toks, condition.cur, "SEMICOLON",
                                              "Expect ';' after loop condition.")
                          IN IF ~semi.ok THEN semi
                             ELSE LET increment ==
                                        IF ~check(toks, semi.cur, "RIGHT_PAREN")
                                        THEN ParseRule("expression", toks, semi.cur, NullNode)
                                        ELSE Ok(NullNode, semi.cur)
                                  IN IF ~increment.ok THEN increment
                                     ELSE LET rp == consume(toks, increment.cur, "RIGHT_PAREN",
                                                            "Expect ')' after for clauses.")
                                          IN IF ~rp.ok THEN rp
                                             ELSE LET body == ParseRule("statement", toks, rp.cur, NullNode)
                                                  IN IF ~body.ok THEN body
                                                     ELSE Ok([type |-> "ForStatement",
                                                              initializer |-> initializer.node,
                                                              condition |-> condition.node,
                                                              increment |-> increment.node,
                                                              body |-> body.node], body.cur)

returnStatement(toks, cur) ==
  LET value == IF ~check(toks, cur, "SEMICOLON") THEN ParseRule("expression", toks, cur, NullNode)
               ELSE Ok(NullNode, cur)
  IN IF ~value.ok THEN value
     ELSE LET semi == consume(toks, value.cur, "SEMICOLON", "Expect ';' after return value.")
          IN IF ~semi.ok THEN semi
             ELSE Ok([type |-> "ReturnStatement", value |-> value.node], semi.cur)

(* while (!this.check(RIGHT_BRACE) && !this.isAtEnd())                     *)
(*   statements.push(this.declaration());                                  *)
BlockLoop(toks, cur, statements) ==
  IF ~check(toks, cur, "RIGHT_BRACE") /\ ~Parser_isAtEnd(toks, cur)
  THEN LET d == ParseRule("declaration", toks, cur, NullNode)
       IN IF ~d.ok THEN d ELSE BlockLoop(toks, d.cur, Append(statements, d.node))
  ELSE [ok |-> TRUE, node |-> statements, cur |-> cur, error |-> NoSyntaxError]

block(toks, cur) ==
  LET statements == BlockLoop(toks, cur, <<>>)
  IN IF ~statements.ok THEN Throw(statements.error, statements.cur)
     ELSE LET rb == consume(toks, statements.cur, "RIGHT_BRACE", "Expect '}' after block.")
          IN IF ~rb.ok THEN rb
             ELSE Ok([type |-> "BlockStatement", body |-> statements.node], rb.cur)

expressionStatement(toks, cur) ==
  LET expr == ParseRule("expression", toks, cur, NullNode)
  IN IF ~expr.ok THEN expr
     ELSE LET semi == consume(toks, expr.cur, "SEMICOLON", "Expect ';' after expression.")
          IN IF ~semi.ok THEN semi
             ELSE Ok([type |-> "ExpressionStatement", expression |-> expr.node], semi.cur)

expression(toks, cur) == ParseRule("assignment", toks, cur, NullNode)

(* this.error(equals, "Invalid assignment target.") makes the error and    *)
(* drops it; the method then returns expr                                  *)
assignment(toks, cur) ==
  LET expr == ParseRule("logicalOr", toks, cur, NullNode)
  IN IF ~expr.ok THEN expr
     ELSE IF check(toks, expr.cur, "EQUAL")
     THEN LET value == ParseRule("assignment", toks, expr.cur + 1, NullNode)
          IN IF ~value.ok THEN value
             ELSE IF expr.node.type = "Identifier"
             THEN Ok([type |-> "AssignmentExpression", operator |-> "=",
                      left |-> expr.node, right |-> value.node], value.cur)
             ELSE Ok(expr.node, value.cur)
     ELSE expr

(* the loop of a left-associative level: while (this.match(...)) { ... } *)
LogicalOrLoop(toks, cur, expr) ==
  IF Parser_match(toks, cur, {"OR"})
  THEN LET right == ParseRule("logicalAnd", toks, cur + 1, NullNode)
       IN IF ~right.ok THEN right
          ELSE LogicalOrLoop(toks, right.cur,
                 [type |-> "LogicalExpression",
                  operator |-> Parser_peek(toks, cur).value,
                  left |-> expr, right |-> right.node])
  ELSE Ok(expr, cur)

logicalOr(toks, cur) ==
  LET expr == ParseRule("logicalAnd", toks, cur, NullNode)
  IN IF ~expr.ok THEN expr ELSE LogicalOrLoop(toks, expr.cur, expr.node)

LogicalAndLoop(toks, cur, expr) ==
  IF Parser_match(toks, cur, {"AND"})
  THEN LET right == ParseRule("equality", toks, cur + 1, NullNode)
       IN IF ~right.ok THEN right
          ELSE LogicalAndLoop(toks, right.cur,
                 [type |-> "LogicalExpression",
                  operator |-> Parser_peek(toks, cur).value,
                  left |-> expr, right |-> right.node])
  ELSE Ok(expr, cur)

logicalAnd(toks, cur) ==
  LET expr == ParseRule("equality", toks, cur, NullNode)
  IN IF ~expr.ok THEN expr ELSE LogicalAndLoop(toks, expr.cur, expr.node)

EqualityLoop(toks, cur, expr) ==
  IF Parser_match(toks, cur, {"BANG_EQUAL", "EQUAL_EQUAL"})
  THEN LET right == ParseRule("comparison", toks, cur + 1, NullNode)
       IN IF ~right.ok THEN right
          ELSE EqualityLoop(toks, right.cur,
                 [type |-> "BinaryExpression",
                  operator |-> Parser_peek(toks, cur).value,
                  left |-> expr, right |-> right.node])
  ELSE Ok(expr, cur)

equality(toks, cur) ==
  LET expr == ParseRule("comparison", toks, cur, NullNode)
  IN IF ~expr.ok THEN expr ELSE EqualityLoop(toks, expr.cur, expr.node)

ComparisonLoop(toks, cur, expr) ==
  IF Parser_match(toks, cur, {"GREATER", "GREATER_EQUAL", "LESS", "LESS_EQUAL"})
  THEN LET right == ParseRule("term", toks, cur + 1, NullNode)
       IN IF ~right.ok THEN right
          ELSE ComparisonLoop(toks, right.cur,
                 [type |-> "BinaryExpression",
                  operator |-> Parser_peek(toks, cur).value,
                  left |-> expr, right |-> right.node])
  ELSE Ok(expr, cur)

comparison(toks, cur) ==
  LET expr == ParseRule("term", toks, cur, NullNode)
  IN IF ~expr.ok THEN expr ELSE ComparisonLoop(toks, expr.cur, expr.node)

(* a variant of the loop of term whose right operand is a unary, not a *)
(* factor                                                              *)
TermLoopUnary(toks, cur, expr) ==
  IF Parser_match(toks, cur, {"MINUS", "PLUS"})
  THEN LET right == ParseRule("unary", toks, cur + 1, NullNode)
       IN IF ~right.ok THEN right
          ELSE TermLoop(toks, right.cur,
                 [type |-> "BinaryExpression",
                  operator |-> Parser_peek(toks, cur).value,
                  left |-> expr, right |-> right.node])
  ELSE Ok(expr, cur)

TermLoop(toks, cur, expr) ==
  IF Parser_match(toks, cur, {"MINUS", "PLUS"})
  THEN LET right == ParseRule("factor", toks, cur + 1, NullNode)
       IN IF ~right.ok THEN right
          ELSE TermLoop(toks, right.cur,
                 [type |-> "BinaryExpression",
                  operator |-> Parser_peek(toks, cur).value,
                  left |-> expr, right |-> right.node])
  ELSE Ok(expr, cur)

term(toks, cur) ==
  LET expr == ParseRule("factor", toks, cur, NullNode)
  IN IF ~expr.ok THEN expr ELSE TermLoop(toks, expr.cur, expr.node)

FactorLoop(toks, cur, expr) ==
  IF Parser_match(toks, cur, {"SLASH", "STAR"})
  THEN LET right == ParseRule("unary", toks, cur + 1, NullNode)
       IN IF ~right.ok THEN right
          ELSE FactorLoop(toks, right.cur,
                 [type |-> "BinaryExpression",
                  operator |-> Parser_peek(toks, cur).value,
                  left |-> expr, right |-> right.node])
  ELSE Ok(expr, cur)

factor(toks, cur) ==
  LET expr == ParseRule("unary", toks, cur, NullNode)
  IN IF ~expr.ok THEN expr ELSE FactorLoop(toks, expr.cur, expr.node)

unary(toks, cur) ==
  IF Parser_match(toks, cur, {"BANG", "MINUS"})
  THEN LET right == ParseRule("unary", toks, cur + 1, NullNode)
       IN IF ~right.ok THEN right
          ELSE Ok([type |-> "UnaryExpression",
                   operator |-> Parser_peek(toks, cur).value,
                   argument |-> right.node], right.cur)
  ELSE ParseRule("call", toks, cur, NullNode)

(* while (true) { if (match(LEFT_PAREN)) ... else if (match(DOT)) ... else break; } *)
CallLoop(toks, cur, expr) ==
  IF check(toks, cur, "LEFT_PAREN")
  THEN LET c == ParseRule("finishCall", toks, cur + 1, expr)
       IN IF ~c.ok THEN c ELSE CallLoop(toks, c.cur, c.node)
  ELSE IF check(toks, cur, "DOT")
  THEN LET name == consume(toks, cur + 1, "IDENTIFIER", "Expect property name after '.'.")
       IN IF ~name.ok THEN name
          ELSE CallLoop(toks, name.cur,
                 [type |-> "MemberExpression", object |-> expr,
                  property |-> [type |-> "Identifier", name |-> name.node.value]])
  ELSE Ok(expr, cur)

call(toks, cur) ==
  LET expr == ParseRule("primary", toks, cur, NullNode)
  IN IF ~expr.ok THEN expr ELSE CallLoop(toks, expr.cur, expr.node)

(* do { if (args.length >= 255) this.error(...); args.push(this.expression()); } *)
(* while (this.match(COMMA));   the error is made and dropped               *)
ArgLoop(toks, cur, args) ==
  LET arg == ParseRule("expression", toks, cur, NullNode)
  IN IF ~arg.ok THEN arg
     ELSE IF check(toks, arg.cur, "COMMA")
          THEN ArgLoop(toks, arg.cur + 1, Append(args, arg.node))
          ELSE [ok |-> TRUE, node |-> Append(args, arg.node), cur |-> arg.cur,
                error |-> NoSyntaxError]

finishCall(toks, cur, callee) ==
  LET args == IF ~check(toks, cur, "RIGHT_PAREN") THEN ArgLoop(toks, cur, <<>>)
              ELSE [ok |-> TRUE, node |-> <<>>, cur |-> cur, error |-> NoSyntaxError]
  IN IF ~args.ok THEN Throw(args.error, args.cur)
     ELSE LET paren == consume(toks, args.cur, "RIGHT_PAREN", "Expect ')' after arguments.")
          IN IF ~paren.ok THEN paren
             ELSE Ok([type |-> "CallExpression", callee |-> callee,
                      arguments |-> args.node], paren.cur)

primary(toks, cur) ==
  IF check(toks, cur, "FALSE") THEN Ok([type |-> "Literal", value |-> Bool(FALSE)], cur + 1)
  ELSE IF check(toks, cur, "TRUE") THEN Ok([type |-> "Literal", value |-> Bool(TRUE)], cur + 1)
  ELSE IF check(toks, cur, "NULL") THEN Ok([type |-> "Literal", value |-> Null], cur + 1)
  ELSE IF check(toks, cur, "NUMBER")
  THEN Ok([type |-> "Literal", value |-> parseFloat(Parser_peek(toks, cur).value)], cur + 1)
  ELSE IF check(toks, cur, "STRING")
  THEN Ok([type |-> "Literal", value |-> Str(Parser_peek(toks, cur).value)], cur + 1)
  ELSE IF check(toks, cur, "IDENTIFIER")
  THEN Ok([type |-> "Identifier", name |-> Parser_peek(toks, cur).value], cur + 1)
  ELSE IF check(toks, cur, "LEFT_PAREN")
  THEN LET expr == ParseRule("expression", toks, cur + 1, NullNode)
       IN IF ~expr.ok THEN expr
          ELSE LET rp == consume(toks, expr.cur, "RIGHT_PAREN", "Expect ')' after expression.")
               IN IF ~rp.ok THEN rp
                  ELSE Ok([type |-> "GroupExpression", expression |-> expr.node], rp.cur)
  ELSE Throw(Parser_error(Parser_peek(toks, cur), "Expect expression."), cur)

ParseRule(rule, toks, cur, arg) ==
  CASE rule = "declaration" -> declaration(toks, cur)
    [] rule = "varDeclaration" -> varDeclaration(toks, cur)
    [] rule = "functionDeclaration" -> functionDeclaration(toks, cur)
    [] rule = "statement" -> statement(toks, cur)
    [] rule = "ifStatement" -> ifStatement(toks, cur)
    [] rule = "whileStatement" -> whileStatement(toks, cur)
    [] rule = "forStatement" -> forStatement(toks, cur)
    [] rule = "returnStatement" -> returnStatement(toks, cur)
    [] rule = "block" -> block(toks, cur)
    [] rule = "expressionStatement" -> expressionStatement(toks, cur)
    [] rule = "expression" -> expression(toks, cur)
    [] rule = "assignment" -> assignment(toks, cur)
    [] rule = "logicalOr" -> logicalOr(toks, cur)
    [] rule = "logicalAnd" -> logicalAnd(toks, cur)
    [] rule = "equality" -> equality(toks, cur)
    [] rule = "comparison" -> comparison(toks, cur)
    [] rule = "term" -> term(toks, cur)
    [] rule = "factor" -> factor(toks, cur)
    [] rule = "unary" -> unary(toks, cur)
    [] rule = "call" -> call(toks, cur)
    [] rule = "finishCall" -> finishCall(toks, cur, arg)
    [] rule = "primary" -> primary(toks, cur)

(* program(): while (!this.isAtEnd()) statements.push(this.declaration()); *)
RECURSIVE ProgramLoop(_, _, _)
ProgramLoop(toks, cur, statements) ==
  IF ~Parser_isAtEnd(toks, cur)
  THEN LET d == ParseRule("declaration", toks, cur, NullNode)
       IN IF ~d.ok THEN d ELSE ProgramLoop(toks, d.cur, Append(statements, d.node))
  ELSE Ok([type |-> "Program", body |-> statements], cur)

program(toks) == ProgramLoop(toks, 0, <<>>)

(* parse(): try { return this.program(); } catch (error) { throw error; } *)
parse(toks) == program(toks)

(***************************************************************************)
(* SemanticAnalyzer (src/src/compiler/SemanticAnalyzer.ts).  The analyzer  *)
(* is the record [scopes, currentScope, errors, inherited].  A SymbolTable *)
(* is the list of its own entries [name, type, initialized, used] in       *)
(* insertion order (the order of Object.entries).  A SymbolTable is made   *)
(* by {}, so scope[name] also finds the members of Object.prototype: they  *)
(* are functions, truthy, without type, initialized or used until the      *)
(* analyzer writes one; inherited is the list of what it wrote, per        *)
(* member.  (__proto__, an accessor, is not among the names modelled.)     *)
(***************************************************************************)
SemanticError(message, node) == [message |-> message, node |-> node]

EmptyScope == <<>>

HasSymbol(scope, name) == \E i \in DOMAIN scope : scope[i].name = name

GetSymbol(scope, name) == scope[CHOOSE i \in DOMAIN scope : scope[i].name = name]

ObjectPrototypeNames ==
  {"constructor", "hasOwnProperty", "isPrototypeOf", "propertyIsEnumerable",
   "toLocaleString", "toString", "valueOf", "__defineGetter__",
   "__defineSetter__", "__lookupGetter__", "__lookupSetter__"}

(* if (scope[name]): an own entry, or a member of Object.prototype *)
Bound(scope, name) == HasSymbol(scope, name) \/ name \in ObjectPrototypeNames

(* the member name of Object.prototype, read as an entry *)
InheritedSymbol(written, name) ==
  IF HasSymbol(written, name) THEN GetSymbol(written, name)
  ELSE [name |-> name, type |-> "undefined", initialized |-> FALSE,
        used |-> FALSE]

(* scope[info.name] = info *)
SetSymbol(scope, info) ==
  IF HasSymbol(scope, info.name)
  THEN [i \in DOMAIN scope |-> IF scope[i].name = info.name THEN info ELSE scope[i]]
  ELSE Append(scope, info)

pushError(A, message, node) ==
  [A EXCEPT !.errors = Append(@, SemanticError(message, node))]

enterScope(A) ==
  [A EXCEPT !.scopes = Append(@, A.currentScope), !.currentScope = EmptyScope]

(* the constructor: the field initializers, then this.enterScope() *)
NewSemanticAnalyzer ==
  enterScope([scopes |-> <<>>, currentScope |-> EmptyScope, errors |-> <<>>,
              inherited |-> <<>>])

exitScope(A) ==
  LET unused == SelectSeq(A.currentScope, LAMBDA info : ~info.used)
      found == [i \in 1..Len(unused) |->
                  SemanticError("Variable '" \o unused[i].name
                                  \o "' is declared but never used",
                                [type |-> "Identifier", name |-> unused[i].name])]
  IN [scopes |-> IF A.scopes = <<>> THEN <<>>
                 ELSE SubSeq(A.scopes, 1, Len(A.scopes) - 1),
      currentScope |-> IF A.scopes = <<>> THEN EmptyScope
                       ELSE A.scopes[Len(A.scopes)],
      errors |-> A.errors \o found,
      inherited |-> A.inherited]

(* lookupVariable returns a reference to an entry; here the place of the   *)
(* entry: 0 for currentScope, i for scopes[i - 1], -1 for null, -2 for a   *)
(* member of Object.prototype (which currentScope[name] finds first)       *)
RECURSIVE LookupOuter(_, _, _)
LookupOuter(outer, i, name) ==
  IF i < 1 THEN -1
  ELSE IF HasSymbol(outer[i], name) THEN i
  ELSE LookupOuter(outer, i - 1, name)

lookupVariable(A, name) ==
  IF HasSymbol(A.currentScope, name) THEN 0
  ELSE IF name \in ObjectPrototypeNames THEN -2
  ELSE LookupOuter(A.scopes, Len(A.scopes), name)

(* the entry at a place lookupVariable returned *)
SymbolAt(A, place, name) ==
  IF place = 0 THEN GetSymbol(A.currentScope, name)
  ELSE IF place = -2 THEN InheritedSymbol(A.inherited, name)
  ELSE GetSymbol(A.scopes[place], name)

(* an assignment to a field of the entry at that place *)
UpdateSymbolAt(A, place, info) ==
  IF place = 0 THEN [A EXCEPT !.currentScope = SetSymbol(@, info)]
  ELSE IF place = -2 THEN [A EXCEPT !.inherited = SetSymbol(@, info)]
  ELSE [A EXCEPT !.scopes[place] = SetSymbol(@, info)]

RECURSIVE visit(_, _), VisitEach(_, _, _)

(* for (const statement of nodes) this.visit(statement); *)
VisitEach(A, nodes, i) ==
  IF i > Len(nodes) THEN A ELSE VisitEach(visit(A, nodes[i]), nodes, i + 1)

visitProgram(A, node) == VisitEach(A, node.body, 1)

visitVariableDeclaration(A, node) ==
  LET A1 == IF Bound(A.currentScope, node.name)
            THEN pushError(A, "Variable '" \o node.name
                                \o "' already declared in this scope", node)
            ELSE [A EXCEPT !.currentScope =
                    SetSymbol(@, [name |-> node.name, type |-> "variable",
                                  initialized |-> node.initializer # NullNode,
                                  used |-> FALSE])]
  IN IF node.initializer # NullNode THEN visit(A1, node.initializer) ELSE A1

(* for (const param of node.params) this.currentScope[param] = {...}       *)
(* from params[i] on: the entry of a name the scope holds is overwritten   *)
(* in place, every other name is added at the end, once, in the order of   *)
(* its first occurrence                                                    *)
AddParams(scope, params, i) ==
  LET info(name) == [name |-> name, type |-> "parameter",
                     initialized |-> TRUE, used |-> FALSE]
      added == {k \in i..Len(params) :
                  /\ ~HasSymbol(scope, params[k])
                  /\ \A j \in i..(k - 1) : params[j] # params[k]}
      nth(m) == CHOOSE k \in added : Cardinality({j \in added : j < k}) = m - 1
  IN [j \in DOMAIN scope |->
        IF \E k \in i..Len(params) : params[k] = scope[j].name
        THEN info(scope[j].name) ELSE scope[j]]
     \o [m \in 1..Cardinality(added) |-> info(params[nth(m)])]

visitFunctionDeclaration(A, node) ==
  LET A1 == IF Bound(A.currentScope, node.name)
            THEN pushError(A, "Function '" \o node.name
                                \o "' already declared in this scope", node)
            ELSE [A EXCEPT !.currentScope =
                    SetSymbol(@, [name |-> node.name, type |-> "function",
                                  initialized |-> TRUE, used |-> FALSE])]
      A2 == enterScope(A1)
      A3 == [A2 EXCEPT !.currentScope = AddParams(@, node.params, 1)]
      A4 == visit(A3, node.body)
      unused == SelectSeq(A4.currentScope,
                          LAMBDA info : info.type = "parameter" /\ ~info.used)
      found == [i \in 1..Len(unused) |->
                  SemanticError("Parameter '" \o unused[i].name
                                  \o "' is never used", node)]
  IN exitScope([A4 EXCEPT !.errors = @ \o found])

visitBlockStatement(A, node) == exitScope(VisitEach(enterScope(A), node.body, 1))

visitExpressionStatement(A, node) == visit(A, node.expression)

visitIfStatement(A, node) ==
  LET A1 == visit(visit(A, node.condition), node.thenBranch)
  IN IF node.elseBranch # NullNode THEN visit(A1, node.elseBranch) ELSE A1

visitWhileStatement(A, node) == visit(visit(A, node.condition), node.body)

visitForStatement(A, node) ==
  LET A1 == enterScope(A)
      A2 == IF node.initializer # NullNode THEN visit(A1, node.initializer) ELSE A1
      A3 == IF node.condition # NullNode THEN visit(A2, node.condition) ELSE A2
      A4 == IF node.increment # NullNode THEN visit(A3, node.increment) ELSE A3
  IN exitScope(visit(A4, node.body))

visitReturnStatement(A, node) ==
  IF node.value # NullNode THEN visit(A, node.value) ELSE A

visitBinaryExpression(A, node) == visit(visit(A, node.left), node.right)

visitUnaryExpression(A, node) == visit(A, node.argument)

visitLogicalExpression(A, node) == visit(visit(A, node.left), node.right)

visitAssignmentExpression(A, node) ==
  LET A1 ==
        IF node.left.type = "Identifier"
        THEN LET name == node.left.name
                 variable == lookupVariable(A, name)
             IN IF variable = -1
                THEN pushError(A, "Variable '" \o name
                                    \o "' used before declaration", node)
                ELSE UpdateSymbolAt(A, variable,
                       [SymbolAt(A, variable, name) EXCEPT !.initialized = TRUE])
        ELSE visit(A, node.left)
  IN visit(A1, node.right)

visitCallExpression(A, node) ==
  LET A1 == visit(A, node.callee)
      A2 ==
        IF node.callee.type = "Identifier"
        THEN LET name == node.callee.name
                 func == lookupVariable(A1, name)
             IN IF func = -1
                THEN pushError(A1, "Function '" \o name
                                     \o "' called before declaration", node)
                ELSE IF SymbolAt(A1, func, name).type # "function"
                THEN pushError(A1, "'" \o name \o "' is not a function", node)
                ELSE UpdateSymbolAt(A1, func,
                       [SymbolAt(A1, func, name) EXCEPT !.used = TRUE])
        ELSE A1
  IN VisitEach(A2, node.arguments, 1)

visitMemberExpression(A, node) == visit(A, node.object)

visitIdentifier(A, node) ==
  LET name == node.name
      variable == lookupVariable(A, name)
  IN IF variable = -1
     THEN pushError(A, "Variable '" \o name \o "' used before declaration", node)
     ELSE LET A1 == UpdateSymbolAt(A, variable,
                      [SymbolAt(A, variable, name) EXCEPT !.used = TRUE])
          IN IF ~SymbolAt(A, variable, name).initialized
             THEN pushError(A1, "Variable '" \o name
                                  \o "' used before initialization", node)
             ELSE A1

visit(A, node) ==
  CASE node.type = "Program" -> visitProgram(A, node)
    [] node.type = "VariableDeclaration" -> visitVariableDeclaration(A, node)
    [] node.type = "FunctionDeclaration" -> visitFunctionDeclaration(A, node)
    [] node.type = "BlockStatement" -> visitBlockStatement(A, node)
    [] node.type = "ExpressionStatement" -> visitExpressionStatement(A, node)
    [] node.type = "IfStatement" -> visitIfStatement(A, node)
    [] node.type = "WhileStatement" -> visitWhileStatement(A, node)
    [] node.type = "ForStatement" -> visitForStatement(A, node)
    [] node.type = "ReturnStatement" -> visitReturnStatement(A, node)
    [] node.type = "BinaryExpression" -> visitBinaryExpression(A, node)
    [] node.type = "UnaryExpression" -> visitUnaryExpression(A, node)
    [] node.type = "LogicalExpression" -> visitLogicalExpression(A, node)
    [] node.type = "AssignmentExpression" -> visitAssignmentExpression(A, node)
    [] node.type = "CallExpression" -> visitCallExpression(A, node)
    [] node.type = "MemberExpression" -> visitMemberExpression(A, node)
    [] node.type = "Identifier" -> visitIdentifier(A, node)
    [] node.type = "Literal" -> A
    [] node.type = "GroupExpression" -> visit(A, node.expression)
    [] OTHER -> A

(* analyze(ast): this.errors = []; this.visit(ast); return this.errors; *)
analyze(A, ast) == visit([A EXCEPT !.errors = <<>>], ast)

(***************************************************************************)
(* IRInstruction {op, args}                                                *)
(***************************************************************************)
Instr(op, args) == [op |-> op, args |-> args]

(* instr.args[i], 0-based; undefined past the end *)
Arg(instr, i) == IF i < Len(instr.args) THEN instr.args[i + 1] ELSE Undefined

BinaryOps == {"ADD", "SUB", "MUL", "DIV", "EQ", "NEQ", "LT", "LTE", "GT", "GTE"}

UnaryOps == {"NEG", "NOT"}

JumpOps == {"JUMP", "JUMP_IF_TRUE", "JUMP_IF_FALSE"}

(***************************************************************************)
(* IRGenerator.createTemp (src/unnamed/part_001): the name it returns when *)
(* tempCounter has the given value.                                        *)
(***************************************************************************)
createTemp(counter) == "t" \o IntToStr(counter)

MaxTemps == 3

TempNames == {createTemp(c) : c \in 0..MaxTemps}

(***************************************************************************)
(* IRGenerator (src/unnamed/part_001).  The generator is the record        *)
(* [instructions, tempCounter, labelCounter, ret, error]: its three        *)
(* fields, the string the last method returned, and the IRGenerationError  *)
(* thrown (NoIRError while none is); once one is thrown no method does     *)
(* anything more.                                                          *)
(***************************************************************************)
NoIRError == [message |-> "", node |-> NullNode]

IRGenerationError(message, node) == [message |-> message, node |-> node]

emit(G, op, args) ==
  IF G.error # NoIRError THEN G
  ELSE [G EXCEPT !.instructions = Append(@, Instr(op, args))]

(* return `t${this.tempCounter++}`: the name is createTemp(G.tempCounter)  *)
(* and this the generator after the call                                   *)
AfterCreateTemp(G) ==
  IF G.error # NoIRError THEN G ELSE [G EXCEPT !.tempCounter = @ + 1]

(* `${prefix}_${this.labelCounter++}` *)
createLabel(prefix, counter) == prefix \o "_" \o IntToStr(counter)

AfterCreateLabel(G) ==
  IF G.error # NoIRError THEN G ELSE [G EXCEPT !.labelCounter = @ + 1]

Return(G, name) == IF G.error # NoIRError THEN G ELSE [G EXCEPT !.ret = name]

ThrowIR(G, message, node) ==
  IF G.error # NoIRError THEN G
  ELSE [G EXCEPT !.error = IRGenerationError(message, node)]

BinaryOperation ==
  [x \in {"+", "-", "*", "/", "==", "!=", "<", "<=", ">", ">="} |->
     CASE x = "+" -> "ADD" [] x = "-" -> "SUB" [] x = "*" -> "MUL"
       [] x = "/" -> "DIV" [] x = "==" -> "EQ" [] x = "!=" -> "NEQ"
       [] x = "<" -> "LT" [] x = "<=" -> "LTE" [] x = ">" -> "GT"
       [] x = ">=" -> "GTE"]

RECURSIVE generateIR(_, _), GenerateEach(_, _, _), GenerateArgs(_, _, _, _)

(* for (const statement of nodes) this.generateIR(statement); *)
GenerateEach(G, nodes, i) ==
  IF i > Len(nodes) THEN G ELSE GenerateEach(generateIR(G, nodes[i]), nodes, i + 1)

generateProgram(G, node) == Return(GenerateEach(G, node.body, 1), "")

generateVariableDeclaration(G, node) ==
  IF node.initializer # NullNode
  THEN LET G1 == generateIR(G, node.initializer)
       IN Return(emit(G1, "STORE", <<Str(G1.ret), Str(node.name)>>), node.name)
  ELSE Return(emit(G, "DECLARE", <<Str(node.name)>>), node.name)

generateFunctionDeclaration(G, node) ==
  LET params == Arr([i \in 1..Len(node.params) |-> Str(node.params[i])])
      G1 == emit(G, "FUNCTION_START", <<Str(node.name), params>>)
      G2 == generateIR(G1, node.body)
  IN Return(emit(G2, "FUNCTION_END", <<Str(node.name)>>), node.name)

generateBlockStatement(G, node) ==
  LET G1 == emit(G, "BLOCK_START", <<>>)
      G2 == GenerateEach(G1, node.body, 1)
  IN Return(emit(G2, "BLOCK_END", <<>>), "")

generateExpressionStatement(G, node) == Return(generateIR(G, node.expression), "")

(* an if statement that sets the else-label before the jump to the end *)
generateIfStatementLabelFirst(G, node) ==
  LET G1 == generateIR(G, node.condition)
      conditionTemp == G1.ret
      elseLabel == createLabel("else", G1.labelCounter)
      G2 == AfterCreateLabel(G1)
      endLabel == createLabel("endif", G2.labelCounter)
      G3 == AfterCreateLabel(G2)
      G4 == emit(G3, "JUMP_IF_FALSE", <<Str(conditionTemp), Str(elseLabel)>>)
      G5 == generateIR(G4, node.thenBranch)
      G6 == emit(G5, "LABEL", <<Str(elseLabel)>>)
      G7 == emit(G6, "JUMP", <<Str(endLabel)>>)
      G8 == IF node.elseBranch # NullNode THEN generateIR(G7, node.elseBranch) ELSE G7
  IN Return(emit(G8, "LABEL", <<Str(endLabel)>>), "")

generateIfStatement(G, node) ==
  LET G1 == generateIR(G, node.condition)
      conditionTemp == G1.ret
      elseLabel == createLabel("else", G1.labelCounter)
      G2 == AfterCreateLabel(G1)
      endLabel == createLabel("endif", G2.labelCounter)
      G3 == AfterCreateLabel(G2)
      G4 == emit(G3, "JUMP_IF_FALSE", <<Str(conditionTemp), Str(elseLabel)>>)
      G5 == generateIR(G4, node.thenBranch)
      G6 == emit(G5, "JUMP", <<Str(endLabel)>>)
      G7 == emit(G6, "LABEL", <<Str(elseLabel)>>)
      G8 == IF node.elseBranch # NullNode THEN generateIR(G7, node.elseBranch) ELSE G7
  IN Return(emit(G8, "LABEL", <<Str(endLabel)>>), "")

generateWhileStatement(G, node) ==
  LET startLabel == createLabel("while", G.labelCounter)
      G1 == AfterCreateLabel(G)
      endLabel == createLabel("endwhile", G1.labelCounter)
      G2 == AfterCreateLabel(G1)
      G3 == emit(G2, "LABEL", <<Str(startLabel)>>)
      G4 == generateIR(G3, node.condition)
      G5 == emit(G4, "JUMP_IF_FALSE", <<Str(G4.ret), Str(endLabel)>>)
      G6 == generateIR(G5, node.body)
      G7 == emit(G6, "JUMP", <<Str(startLabel)>>)
  IN Return(emit(G7, "LABEL", <<Str(endLabel)>>), "")

generateForStatement(G, node) ==
  LET startLabel == createLabel("for", G.labelCounter)
      G1 == AfterCreateLabel(G)
      updateLabel == createLabel("forupdate", G1.labelCounter)
      G2 == AfterCreateLabel(G1)
      endLabel == createLabel("endfor", G2.labelCounter)
      G3 == AfterCreateLabel(G2)
      G4 == IF node.initializer # NullNode THEN generateIR(G3, node.initializer) ELSE G3
      G5 == emit(G4, "LABEL", <<Str(startLabel)>>)
      G6 == IF node.condition # NullNode
            THEN LET Gc == generateIR(G5, node.condition)
                 IN emit(Gc, "JUMP_IF_FALSE", <<Str(Gc.ret), Str(endLabel)>>)
            ELSE G5
      G7 == generateIR(G6, node.body)
      G8 == emit(G7, "LABEL", <<Str(updateLabel)>>)
      G9 == IF node.increment # NullNode THEN generateIR(G8, node.increment) ELSE G8
      G10 == emit(G9, "JUMP", <<Str(startLabel)>>)
  IN Return(emit(G10, "LABEL", <<Str(endLabel)>>), "")

generateReturnStatement(G, node) ==
  IF node.value # NullNode
  THEN LET G1 == generateIR(G, node.value)
       IN Return(emit(G1, "RETURN", <<Str(G1.ret)>>), "")
  ELSE Return(emit(G, "RETURN", <<>>), "")

generateBinaryExpression(G, node) ==
  LET G1 == generateIR(G, node.left)
      G2 == generateIR(G1, node.right)
      resultTemp == createTemp(G2.tempCounter)
      G3 == AfterCreateTemp(G2)
  IN IF node.operator \in DOMAIN BinaryOperation
     THEN Return(emit(G3, BinaryOperation[node.operator],
                      <<Str(G1.ret), Str(G2.ret), Str(resultTemp)>>), resultTemp)
     ELSE ThrowIR(G3, "Unknown binary operator: " \o node.operator, node)

generateUnaryExpression(G, node) ==
  LET G1 == generateIR(G, node.argument)
      resultTemp == createTemp(G1.tempCounter)
      G2 == AfterCreateTemp(G1)
  IN IF node.operator = "-"
     THEN Return(emit(G2, "NEG", <<Str(G1.ret), Str(resultTemp)>>), resultTemp)
     ELSE IF node.operator = "!"
     THEN Return(emit(G2, "NOT", <<Str(G1.ret), Str(resultTemp)>>), resultTemp)
     ELSE ThrowIR(G2, "Unknown unary operator: " \o node.operator, node)

generateLogicalExpression(G, node) ==
  LET resultTemp == createTemp(G.tempCounter)
      G1 == AfterCreateTemp(G)
  IN IF node.operator \in {"&&", "||"}
     THEN LET G2 == generateIR(G1, node.left)
              leftTemp == G2.ret
              skipLabel == createLabel(IF node.operator = "&&" THEN "and_skip"
                                       ELSE "or_skip", G2.labelCounter)
              G3 == AfterCreateLabel(G2)
              G4 == emit(G3, "COPY", <<Str(leftTemp), Str(resultTemp)>>)
              G5 == emit(G4, IF node.operator = "&&" THEN "JUMP_IF_FALSE"
                             ELSE "JUMP_IF_TRUE", <<Str(leftTemp), Str(skipLabel)>>)
              G6 == generateIR(G5, node.right)
              G7 == emit(G6, "COPY", <<Str(G6.ret), Str(resultTemp)>>)
          IN Return(emit(G7, "LABEL", <<Str(skipLabel)>>), resultTemp)
     ELSE ThrowIR(G1, "Unknown logical operator: " \o node.operator, node)

generateAssignmentExpression(G, node) ==
  LET G1 == generateIR(G, node.right)
      rightTemp == G1.ret
  IN IF node.left.type = "Identifier"
     THEN Return(emit(G1, "STORE", <<Str(rightTemp), Str(node.left.name)>>), rightTemp)
     ELSE IF node.left.type = "MemberExpression"
     THEN LET G2 == generateIR(G1, node.left.object)
          IN Return(emit(G2, "STORE_PROP",
                         <<Str(G2.ret), Str(node.left.property.name), Str(rightTemp)>>),
                    rightTemp)
     ELSE ThrowIR(G1, "Invalid assignment target", node)

(* for (const arg of node.arguments) args.push(this.generateIR(arg));      *)
(* the generator after the loop, its ret holding nothing of use, and the   *)
(* list args in the field args                                             *)
GenerateArgs(G, nodes, i, args) ==
  IF i > Len(nodes) THEN [g |-> G, args |-> args]
  ELSE LET G1 == generateIR(G, nodes[i])
       IN GenerateArgs(G1, nodes, i + 1, Append(args, Str(G1.ret)))

generateCallExpression(G, node) ==
  LET a == GenerateArgs(G, node.arguments, 1, <<>>)
      resultTemp == createTemp(a.g.tempCounter)
      G1 == AfterCreateTemp(a.g)
  IN IF node.callee.type = "Identifier"
     THEN Return(emit(G1, "CALL", <<Str(node.callee.name), Arr(a.args), Str(resultTemp)>>),
                 resultTemp)
     ELSE LET G2 == generateIR(G1, node.callee)
          IN Return(emit(G2, "CALL_INDIRECT",
                         <<Str(G2.ret), Arr(a.args), Str(resultTemp)>>), resultTemp)

generateMemberExpression(G, node) ==
  LET G1 == generateIR(G, node.object)
      resultTemp == createTemp(G1.tempCounter)
      G2 == AfterCreateTemp(G1)
  IN Return(emit(G2, "LOAD_PROP",
                 <<Str(G1.ret), Str(node.property.name), Str(resultTemp)>>), resultTemp)

generateIdentifier(G, node) ==
  LET resultTemp == createTemp(G.tempCounter)
  IN Return(emit(AfterCreateTemp(G), "LOAD", <<Str(node.name), Str(resultTemp)>>),
            resultTemp)

generateLiteral(G, node) ==
  LET resultTemp == createTemp(G.tempCounter)
  IN Return(emit(AfterCreateTemp(G), "CONST", <<node.value, Str(resultTemp)>>),
            resultTemp)

generateIR(G, node) ==
  IF G.error # NoIRError THEN G
  ELSE CASE node.type = "Program" -> generateProgram(G, node)
         [] node.type = "VariableDeclaration" -> generateVariableDeclaration(G, node)
         [] node.type = "FunctionDeclaration" -> generateFunctionDeclaration(G, node)
         [] node.type = "BlockStatement" -> generateBlockStatement(G, node)
         [] node.type = "ExpressionStatement" -> generateExpressionStatement(G, node)
         [] node.type = "IfStatement" -> generateIfStatement(G, node)
         [] node.type = "WhileStatement" -> generateWhileStatement(G, node)
         [] node.type = "ForStatement" -> generateForStatement(G, node)
         [] node.type = "ReturnStatement" -> generateReturnStatement(G, node)
         [] node.type = "BinaryExpression" -> generateBinaryExpression(G, node)
         [] node.type = "UnaryExpression" -> generateUnaryExpression(G, node)
         [] node.type = "LogicalExpression" -> generateLogicalExpression(G, node)
         [] node.type = "AssignmentExpression" -> generateAssignmentExpression(G, node)
         [] node.type = "CallExpression" -> generateCallExpression(G, node)
         [] node.type = "MemberExpression" -> generateMemberExpression(G, node)
         [] node.type = "Identifier" -> generateIdentifier(G, node)
         [] node.type = "Literal" -> generateLiteral(G, node)
         [] node.type = "GroupExpression" -> generateIR(G, node.expression)
         [] OTHER -> ThrowIR(G, "Unknown node type: " \o node.type, node)

(* new IRGenerator(): the field initializers *)
NewIRGenerator ==
  [instructions |-> <<>>, tempCounter |-> 0, labelCounter |-> 0, ret |-> "",
   error |-> NoIRError]

(* generate(ast): the three fields are reset, then this.generateIR(ast) *)
(* a generate that goes on counting temporaries and labels *)
IRGenerator_generateCounting(G, ast) ==
  generateIR([G EXCEPT !.instructions = <<>>], ast)

IRGenerator_generate(G, ast) ==
  generateIR([G EXCEPT !.instructions = <<>>, !.tempCounter = 0,
                       !.labelCounter = 0], ast)

(***************************************************************************)
(* Optimizer (src/unnamed/part_000)                                        *)
(* A pass returns [ir, changed], as the code's { ir, changed }.            *)
(***************************************************************************)

(* The index of the nearest CONST before currentIndex (1-based) whose      *)
(* args[1] === tempVar; 0 when there is none.                              *)
RECURSIVE findPreviousConstIndex(_, _, _)
findPreviousConstIndex(ir, currentIndex, tempVar) ==
  IF currentIndex <= 1 THEN 0
  ELSE IF ir[currentIndex - 1].op = "CONST"
          /\ StrictEq(Arg(ir[currentIndex - 1], 1), tempVar)
       THEN currentIndex - 1
       ELSE findPreviousConstIndex(ir, currentIndex - 1, tempVar)

NoInstr == Instr("", <<>>)

findPreviousConstInstr(ir, currentIndex, tempVar) ==
  LET j == findPreviousConstIndex(ir, currentIndex, tempVar)
  IN IF j = 0 THEN NoInstr ELSE ir[j]

(* the switch of constantFolding on a binary op, both values numbers *)
BinaryResult(op, val1, val2) ==
  CASE op = "ADD" -> NumAdd(val1, val2)
    [] op = "SUB" -> NumAdd(val1, NumNeg(val2))
    [] op = "MUL" -> NumMul(val1, val2)
    [] op = "DIV" -> NumDiv(val1, val2)
    [] op = "EQ" -> Bool(StrictEq(val1, val2))
    [] op = "NEQ" -> Bool(~StrictEq(val1, val2))
    [] op = "LT" -> Bool(NumLess(val1, val2))
    [] op = "LTE" -> Bool(NumLess(val1, val2) \/ StrictEq(val1, val2))
    [] op = "GT" -> Bool(NumLess(val2, val1))
    [] op = "GTE" -> Bool(NumLess(val2, val1) \/ StrictEq(val1, val2))

(* -val and !val on a number or a boolean *)
UnaryResult(op, val) ==
  IF op = "NEG"
  THEN (IF IsBoolean(val) THEN Num(-val.n) ELSE NumNeg(val))
  ELSE (IF IsBoolean(val) THEN Bool(val.n = 0)
        ELSE Bool(IsNaN(val) \/ (val.d = 1 /\ val.n = 0)))

FoldsBinary(ir, i) ==
  /\ ir[i].op \in BinaryOps
  /\ LET prevInstr1 == findPreviousConstInstr(ir, i, Arg(ir[i], 0))
         prevInstr2 == findPreviousConstInstr(ir, i, Arg(ir[i], 1))
     IN /\ prevInstr1 # NoInstr
        /\ prevInstr2 # NoInstr
        /\ IsNumber(Arg(prevInstr1, 0))
        /\ IsNumber(Arg(prevInstr2, 0))

FoldsUnary(ir, i) ==
  /\ ir[i].op \in UnaryOps
  /\ LET prevInstr == findPreviousConstInstr(ir, i, Arg(ir[i], 0))
     IN /\ prevInstr # NoInstr
        /\ (IsNumber(Arg(prevInstr, 0)) \/ IsBoolean(Arg(prevInstr, 0)))

constantFolding(ir) ==
  [ir |->
     [i \in 1..Len(ir) |->
        IF FoldsBinary(ir, i)
        THEN Instr("CONST",
                   <<BinaryResult(ir[i].op,
                        Arg(findPreviousConstInstr(ir, i, Arg(ir[i], 0)), 0),
                        Arg(findPreviousConstInstr(ir, i, Arg(ir[i], 1)), 0)),
                     Arg(ir[i], 2)>>)
        ELSE IF FoldsUnary(ir, i)
        THEN Instr("CONST",
                   <<UnaryResult(ir[i].op,
                        Arg(findPreviousConstInstr(ir, i, Arg(ir[i], 0)), 0)),
                     Arg(ir[i], 1)>>)
        ELSE ir[i]],
   changed |-> \E i \in 1..Len(ir) : FoldsBinary(ir, i) \/ FoldsUnary(ir, i)]

(* a variant that takes args[0] of every jump as its target *)
JumpTargetsFirstArg(ir) ==
  {Arg(ir[i], 0) : i \in {j \in 1..Len(ir) : ir[j].op \in JumpOps}}

(* the keys of the jumps map: the target of every jump *)
JumpTargets(ir) ==
  {Arg(ir[i], IF ir[i].op = "JUMP" THEN 0 ELSE 1) :
     i \in {j \in 1..Len(ir) : ir[j].op \in JumpOps}}

(* usedVars: the string arguments starting with t of every instruction    *)
(* that is neither a STORE nor a CONST                                    *)
UsedVars(ir) ==
  UNION {{ir[i].args[a] :
            a \in {b \in DOMAIN ir[i].args :
                     /\ IsString(ir[i].args[b])
                     /\ StartsWith(ir[i].args[b].s, "t")}} :
         i \in {j \in 1..Len(ir) : ir[j].op \notin {"STORE", "CONST"}}}

(* a variant that skips unused STOREs and unreferenced LABELs, and keeps *)
(* every CONST                                                          *)
DceDropsNoConst(ir, instr) ==
  \/ /\ instr.op = "STORE"
     /\ IsString(Arg(instr, 1))
     /\ StartsWith(Arg(instr, 1).s, "t")
     /\ Arg(instr, 1) \notin UsedVars(ir)
  \/ /\ instr.op = "LABEL"
     /\ Arg(instr, 0) \notin JumpTargets(ir)

(* the instruction is skipped by the third loop of deadCodeElimination *)
DceDrops(ir, instr) ==
  \/ /\ instr.op \in {"STORE", "CONST"}
     /\ IsString(Arg(instr, 1))
     /\ StartsWith(Arg(instr, 1).s, "t")
     /\ Arg(instr, 1) \notin UsedVars(ir)
  \/ /\ instr.op = "LABEL"
     /\ Arg(instr, 0) \notin JumpTargets(ir)

deadCodeElimination(ir) ==
  [ir |-> SelectSeq(ir, LAMBDA instr : ~DceDrops(ir, instr)),
   changed |-> \E i \in 1..Len(ir) : DceDrops(ir, ir[i])]

(* Map.set, Map.delete and the empty Map; a Map is a function on its keys *)
MapSet(m, key, v) == [x \in (DOMAIN m) \cup {key} |-> IF x = key THEN v ELSE m[x]]

MapDelete(m, key) == [x \in (DOMAIN m) \ {key} |-> m[x]]

EmptyMap == [x \in {} |-> Undefined]

(* a propagation that also forgets the constants at the end markers *)
CpStepClearsOnEnd(st, instr) ==
  LET c0 == st.constants
      a0 == Arg(instr, 0)
      a1 == Arg(instr, 1)
      c1 == CASE instr.op = "CONST" -> MapSet(c0, a1, a0)
              [] instr.op = "STORE" ->
                   IF IsString(a0) /\ a0 \in DOMAIN c0
                   THEN MapSet(c0, a1, c0[a0])
                   ELSE MapDelete(c0, a1)
              [] instr.op \in {"BLOCK_START", "FUNCTION_START", "BLOCK_END",
                               "FUNCTION_END"} -> EmptyMap
              [] OTHER -> c0
      known(arg) == IsString(arg) /\ arg \in DOMAIN c1
      instrChanged == \E a \in DOMAIN instr.args : known(instr.args[a])
      newArgs == [a \in DOMAIN instr.args |->
                    IF known(instr.args[a]) THEN c1[instr.args[a]]
                    ELSE instr.args[a]]
  IN IF instr.op = "LOAD" /\ a0 \in DOMAIN c0
     THEN [constants |-> c0,
           result |-> Append(st.result, Instr("CONST", <<c0[a0], a1>>)),
           changed |-> TRUE]
     ELSE [constants |-> c1,
           result |-> Append(st.result,
                             IF instrChanged THEN Instr(instr.op, newArgs)
                             ELSE instr),
           changed |-> st.changed \/ instrChanged]

(* One iteration of the loop of constantPropagation: st holds the Map      *)
(* constants, the list result and the flag changed.                        *)
CpStep(st, instr) ==
  LET c0 == st.constants
      a0 == Arg(instr, 0)
      a1 == Arg(instr, 1)
      c1 == CASE instr.op = "CONST" -> MapSet(c0, a1, a0)
              [] instr.op = "STORE" ->
                   IF IsString(a0) /\ a0 \in DOMAIN c0
                   THEN MapSet(c0, a1, c0[a0])
                   ELSE MapDelete(c0, a1)
              [] instr.op \in {"BLOCK_START", "FUNCTION_START"} -> EmptyMap
              [] OTHER -> c0
      known(arg) == IsString(arg) /\ arg \in DOMAIN c1
      instrChanged == \E a \in DOMAIN instr.args : known(instr.args[a])
      newArgs == [a \in DOMAIN instr.args |->
                    IF known(instr.args[a]) THEN c1[instr.args[a]]
                    ELSE instr.args[a]]
  IN IF instr.op = "LOAD" /\ a0 \in DOMAIN c0
     THEN [constants |-> c0,
           result |-> Append(st.result, Instr("CONST", <<c0[a0], a1>>)),
           changed |-> TRUE]
     ELSE [constants |-> c1,
           result |-> Append(st.result,
                             IF instrChanged THEN Instr(instr.op, newArgs)
                             ELSE instr),
           changed |-> st.changed \/ instrChanged]

RECURSIVE CpLoop(_, _, _)
CpLoop(ir, i, st) ==
  IF i > Len(ir) THEN st ELSE CpLoop(ir, i + 1, CpStep(st, ir[i]))

constantPropagation(ir) ==
  LET st == CpLoop(ir, 1, [constants |-> EmptyMap, result |-> <<>>,
                           changed |-> FALSE])
  IN [ir |-> st.result, changed |-> st.changed]

(* `${instr.op}(${instr.args[0]},${instr.args[1]})` *)
ExprKey(instr) ==
  instr.op \o "(" \o ToStr(Arg(instr, 0)) \o "," \o ToStr(Arg(instr, 1)) \o ")"

(* One iteration of the loop of commonSubexpressionElimination. *)
CseStep(st, instr) ==
  LET expr == ExprKey(instr)
  IN IF instr.op \in BinaryOps
     THEN (IF expr \in DOMAIN st.expressions
           THEN [expressions |-> st.expressions,
                 result |-> Append(st.result,
                              Instr("COPY", <<st.expressions[expr],
                                              Arg(instr, 2)>>)),
                 changed |-> TRUE]
           ELSE [expressions |-> MapSet(st.expressions, expr, Arg(instr, 2)),
                 result |-> Append(st.result, instr),
                 changed |-> st.changed])
     ELSE [expressions |->
             IF instr.op \in {"STORE", "CALL", "FUNCTION_START", "BLOCK_START"}
             THEN EmptyMap ELSE st.expressions,
           result |-> Append(st.result, instr),
           changed |-> st.changed]

RECURSIVE CseLoop(_, _, _)
CseLoop(ir, i, st) ==
  IF i > Len(ir) THEN st ELSE CseLoop(ir, i + 1, CseStep(st, ir[i]))

commonSubexpressionElimination(ir) ==
  LET st == CseLoop(ir, 1, [expressions |-> EmptyMap, result |-> <<>>,
                            changed |-> FALSE])
  IN [ir |-> st.result, changed |-> st.changed]

(* passes[i] of optimize, i from 1 *)
NumPasses == 4

Pass(i, ir) ==
  CASE i = 1 -> constantFolding(ir)
    [] i = 2 -> deadCodeElimination(ir)
    [] i = 3 -> constantPropagation(ir)
    [] i = 4 -> commonSubexpressionElimination(ir)

(***************************************************************************)
(* CodeGenerator (src/unnamed/part_000).  The generator is the record      *)
(* [output, indentLevel, error]: error is "" while nothing is thrown, the  *)
(* name of the class of the error thrown otherwise, with its message in    *)
(* message.  The field variables is cleared and never written.             *)
(***************************************************************************)
RECURSIVE Repeat(_, _)
Repeat(s, count) == IF count = 0 THEN "" ELSE s \o Repeat(s, count - 1)

(* emitLine(line, extraIndent): "  ".repeat(n) throws a RangeError when n  *)
(* is negative                                                             *)
emitLine(C, ln, extraIndent) ==
  IF C.error # "" THEN C
  ELSE IF C.indentLevel + extraIndent < 0
  THEN [C EXCEPT !.error = "RangeError",
                 !.message = "Invalid count value: "
                               \o IntToStr(C.indentLevel + extraIndent)]
  ELSE [C EXCEPT !.output = Append(@, Repeat("  ", C.indentLevel + extraIndent) \o ln)]

formatValue(value) ==
  IF value = Null THEN "null"
  ELSE IF value = Undefined THEN "undefined"
  ELSE IF IsString(value) THEN "\"" \o value.s \o "\""
  ELSE ToStr(value)

(* list.join(sep) of an array of strings *)
RECURSIVE Join(_, _)
Join(list, sep) ==
  IF list = <<>> THEN ""
  ELSE IF Len(list) = 1 THEN ToStr(list[1])
  ELSE ToStr(list[1]) \o sep \o Join(Tail(list), sep)

(* the value is truthy *)
Truthy(v) ==
  CASE v.k = "string" -> v.s # ""
    [] v.k = "number" -> ~(IsNaN(v) \/ (v.d = 1 /\ v.n = 0))
    [] v.k = "boolean" -> v.n = 1
    [] v.k = "array" -> TRUE
    [] OTHER -> FALSE

(* a generator that never lowers the indent level *)
IndentRising(C, delta) ==
  IF C.error # "" \/ delta < 0 THEN C ELSE [C EXCEPT !.indentLevel = @ + delta]

Indent(C, delta) ==
  IF C.error # "" THEN C ELSE [C EXCEPT !.indentLevel = @ + delta]

ThrowCG(C, class, message) ==
  IF C.error # "" THEN C ELSE [C EXCEPT !.error = class, !.message = message]

(* `let ${args[2]} = ${args[0]} <sign> ${args[1]};` *)
BinaryLine(instr, sign) ==
  "let " \o ToStr(Arg(instr, 2)) \o " = " \o ToStr(Arg(instr, 0)) \o " " \o sign
    \o " " \o ToStr(Arg(instr, 1)) \o ";"

BinarySign ==
  [op \in BinaryOps |->
     CASE op = "ADD" -> "+" [] op = "SUB" -> "-" [] op = "MUL" -> "*"
       [] op = "DIV" -> "/" [] op = "EQ" -> "===" [] op = "NEQ" -> "!=="
       [] op = "LT" -> "<" [] op = "LTE" -> "<=" [] op = "GT" -> ">"
       [] op = "GTE" -> ">="]

(* args[1].join(", ") of FUNCTION_START, CALL and CALL_INDIRECT throws a   *)
(* TypeError when args[1] is no array                                      *)
processInstruction(C, instr) ==
  LET a0 == ToStr(Arg(instr, 0))
      a1 == ToStr(Arg(instr, 1))
      a2 == ToStr(Arg(instr, 2))
      noJoin == ThrowCG(C, "TypeError", "instr.args[1].join is not a function")
  IN CASE instr.op = "FUNCTION_START" ->
            IF Arg(instr, 1).k # "array" THEN noJoin
            ELSE Indent(emitLine(C, "function " \o a0 \o "("
                                      \o Join(Arg(instr, 1).l, ", ") \o ") {", 0), 1)
       [] instr.op = "FUNCTION_END" ->
            emitLine(emitLine(Indent(C, -1), "}", 0), "", 0)
       [] instr.op = "BLOCK_START" -> Indent(emitLine(C, "{", 0), 1)
       [] instr.op = "BLOCK_END" -> emitLine(Indent(C, -1), "}", 0)
       [] instr.op = "DECLARE" -> emitLine(C, "let " \o a0 \o ";", 0)
       [] instr.op = "CONST" ->
            emitLine(C, "let " \o a1 \o " = " \o formatValue(Arg(instr, 0)) \o ";", 0)
       [] instr.op = "LOAD" -> emitLine(C, "let " \o a1 \o " = " \o a0 \o ";", 0)
       [] instr.op = "STORE" -> emitLine(C, a1 \o " = " \o a0 \o ";", 0)
       [] instr.op = "LOAD_PROP" ->
            emitLine(C, "let " \o a2 \o " = " \o a0 \o "." \o a1 \o ";", 0)
       [] instr.op = "STORE_PROP" ->
            emitLine(C, a0 \o "." \o a1 \o " = " \o a2 \o ";", 0)
       [] instr.op \in BinaryOps -> emitLine(C, BinaryLine(instr, BinarySign[instr.op]), 0)
       [] instr.op = "NEG" -> emitLine(C, "let " \o a1 \o " = -" \o a0 \o ";", 0)
       [] instr.op = "NOT" -> emitLine(C, "let " \o a1 \o " = !" \o a0 \o ";", 0)
       [] instr.op = "COPY" -> emitLine(C, "let " \o a1 \o " = " \o a0 \o ";", 0)
       [] instr.op = "LABEL" -> emitLine(C, a0 \o ":", 0)
       [] instr.op = "JUMP" -> emitLine(C, "goto " \o a0 \o ";", 0)
       [] instr.op = "JUMP_IF_TRUE" ->
            emitLine(C, "if (" \o a0 \o ") goto " \o a1 \o ";", 0)
       [] instr.op = "JUMP_IF_FALSE" ->
            emitLine(C, "if (!" \o a0 \o ") goto " \o a1 \o ";", 0)
       [] instr.op \in {"CALL", "CALL_INDIRECT"} ->
            IF Arg(instr, 1).k # "array" THEN noJoin
            ELSE IF Truthy(Arg(instr, 2))
            THEN emitLine(C, "let " \o a2 \o " = " \o a0 \o "("
                               \o Join(Arg(instr, 1).l, ", ") \o ");", 0)
            ELSE emitLine(C, a0 \o "(" \o Join(Arg(instr, 1).l, ", ") \o ");", 0)
       [] instr.op = "RETURN" ->
            IF Len(instr.args) > 0 THEN emitLine(C, "return " \o a0 \o ";", 0)
            ELSE emitLine(C, "return;", 0)
       [] OTHER -> ThrowCG(C, "CodeGenerationError", "Unknown instruction: " \o instr.op)

RECURSIVE ProcessEach(_, _, _)
ProcessEach(C, ir, i) ==
  IF i > Len(ir) THEN C ELSE ProcessEach(processInstruction(C, ir[i]), ir, i + 1)

Preamble ==
  emitLine(emitLine(emitLine(emitLine(emitLine(emitLine(emitLine(emitLine(
    [output |-> <<>>, indentLevel |-> 0, error |-> "", message |-> ""],
    "// Generated JavaScript code", 0),
    "// This is a simplified target language", 0),
    "", 0),
    "// Runtime functions", 0),
    "function printValue(value) {", 0),
    "  console.log(value);", 1),
    "}", 0),
    "", 0)

(* generate(ir): the generator after the loop; the text returned is        *)
(* CodeOf of it                                                            *)
CodeGenerator_generate(ir) == ProcessEach(Preamble, ir, 1)

(* this.output.join("\n") *)
CodeOf(C) == Join([i \in 1..Len(C.output) |-> Str(C.output[i])], "\n")

(***************************************************************************)
(* Compiler.compile (src/src/compiler/Compiler.ts).  A CompilationResult   *)
(* is a record with the fields success and errors and those of tokens,     *)
(* ast, ir, optimizedIr and code that the call assigned.  An entry of      *)
(* errors has the fields phase and message and, for the lexical and the    *)
(* syntax phase, line and column.                                          *)
(*                                                                         *)
(* The first half of compile, from its first line to the call of           *)
(* this.optimizer.optimize, gives [result, returned, lexer, analyzer,      *)
(* generator]: the result so far, whether compile has returned it, and the *)
(* objects the call used as it leaves them.  It is written as one operator *)
(* per phase, each taking what the phases before it made.                  *)
(***************************************************************************)

(* const result = { success: true, errors: [] } *)
NewResult == [success |-> TRUE, errors |-> <<>>]

(* the catch block: result.success = false and one entry of errors *)
Caught(result, entry) == [result EXCEPT !.success = FALSE, !.errors = <<entry>>]

(* const ir = this.irGenerator.generate(ast); result.ir = ir; *)
CompileGenerate(result, lexer, analyzer, generator) ==
  IF generator.error # NoIRError
  THEN [result |-> Caught(result, [phase |-> "IR Generation",
                                   message |-> generator.error.message]),
        returned |-> TRUE, lexer |-> lexer, analyzer |-> analyzer,
        generator |-> generator]
  ELSE [result |-> [ir |-> generator.instructions] @@ result,
        returned |-> FALSE, lexer |-> lexer, analyzer |-> analyzer,
        generator |-> generator]

(* a variant that reports the first semantic error only *)
CompileAnalyzeFirst(result, lexer, analyzer, G, ast) ==
  IF Len(analyzer.errors) > 0
  THEN [result |-> Caught(result, [phase |-> "Semantic Analysis",
                                   message |-> analyzer.errors[1].message]),
        returned |-> TRUE, lexer |-> lexer, analyzer |-> analyzer, generator |-> G]
  ELSE CompileGenerate(result, lexer, analyzer, IRGenerator_generate(G, ast))

(* const semanticErrors = this.semanticAnalyzer.analyze(ast);              *)
(* if (semanticErrors.length > 0) { ... return result; }                   *)
CompileAnalyze(result, lexer, analyzer, G, ast) ==
  IF Len(analyzer.errors) > 0
  THEN [result |-> [result EXCEPT
                      !.success = FALSE,
                      !.errors = [i \in 1..Len(analyzer.errors) |->
                                    [phase |-> "Semantic Analysis",
                                     message |-> analyzer.errors[i].message]]],
        returned |-> TRUE, lexer |-> lexer, analyzer |-> analyzer, generator |-> G]
  ELSE CompileGenerate(result, lexer, analyzer, IRGenerator_generate(G, ast))

(* const ast = this.parser.parse(); result.ast = ast; *)
CompileParse(result, lexer, A, G, parsed) ==
  IF ~parsed.ok
  THEN [result |-> Caught(result, [phase |-> "Syntax Analysis",
                                   message |-> parsed.error.message,
                                   line |-> parsed.error.token.line,
                                   column |-> parsed.error.token.column]),
        returned |-> TRUE, lexer |-> lexer, analyzer |-> A, generator |-> G]
  ELSE CompileAnalyze([ast |-> parsed.node] @@ result, lexer,
                      analyze(A, parsed.node), G, parsed.node)

(* const tokens = this.lexer.tokenize(); result.tokens = tokens; *)
CompileTokenize(result, A, G, lexer) ==
  IF lexer.error # NoLexError
  THEN [result |-> Caught(result, [phase |-> "Lexical Analysis",
                                   message |-> lexer.error.message,
                                   line |-> lexer.error.line,
                                   column |-> lexer.error.column]),
        returned |-> TRUE, lexer |-> lexer, analyzer |-> A, generator |-> G]
  ELSE CompileParse([tokens |-> lexer.tokens] @@ result, lexer, A, G,
                    parse(lexer.tokens))

CompileFirstHalf(A, G, src) == CompileTokenize(NewResult, A, G, tokenize(src))

(* const code = this.codeGenerator.generate(optimizedIr); result.code = code; *)
(* a compile that returns without attaching the code *)
CompileCodeDropped(result, C) ==
  IF C.error = "" THEN result
  ELSE Caught(result, [phase |-> IF C.error = "CodeGenerationError"
                                 THEN "Code Generation" ELSE "Unknown",
                       message |-> C.message])

CompileCode(result, C) ==
  IF C.error = "" THEN [code |-> CodeOf(C)] @@ result
  ELSE Caught(result, [phase |-> IF C.error = "CodeGenerationError"
                                 THEN "Code Generation" ELSE "Unknown",
                       message |-> C.message])

(* the second half of compile, after optimize returned optimizedIr: the    *)
(* result returned and the code generator as the call leaves it            *)
CompileSecondHalf(result, C, optimizedIr) ==
  [result |-> CompileCode([optimizedIr |-> optimizedIr] @@ result, C),
   codeGenerator |-> C]

(***************************************************************************)
(* optimize as a state machine: one step per loop test and per pass.       *)
(***************************************************************************)

(* let optimized = [...ir]; let changed = true; *)
OptEnter(ir) ==
  /\ optimized' = ir
  /\ changed' = TRUE
  /\ optPc' = "while"
  /\ passI' = 1
  /\ passIn' = <<>>

(* while (changed) { changed = false; ... }  return optimized; *)
OptWhile ==
  /\ optPc = "while"
  /\ IF changed
     THEN /\ changed' = FALSE
          /\ optPc' = "for"
          /\ passI' = 1
     ELSE /\ optPc' = "return"
          /\ UNCHANGED <<changed, passI>>
  /\ UNCHANGED <<optInput, optimized, passIn, optCall, optFirst>>
  /\ UNCHANGED <<lexVars, compVars, frontVars, genVars>>

(* a variant of the loop body that never sets changed: optimize returns *)
(* after one round                                                      *)
OptPassOneRound(i) ==
  /\ optPc = "for"
  /\ passI = i
  /\ LET result == Pass(i, optimized)
     IN optimized' = IF result.changed THEN result.ir ELSE optimized
  /\ changed' = changed
  /\ passIn' = optimized
  /\ IF i = NumPasses
     THEN optPc' = "while" /\ passI' = 1
     ELSE optPc' = "for" /\ passI' = i + 1
  /\ UNCHANGED <<optInput, optCall, optFirst>>
  /\ UNCHANGED <<lexVars, compVars, frontVars, genVars>>

(* const result = pass.call(this, optimized);                              *)
(* if (result.changed) { optimized = result.ir; changed = true; }          *)
OptPass(i) ==
  /\ optPc = "for"
  /\ passI = i
  /\ LET result == Pass(i, optimized)
     IN /\ optimized' = IF result.changed THEN result.ir ELSE optimized
        /\ changed' = (changed \/ result.changed)
  /\ passIn' = optimized
  /\ IF i = NumPasses
     THEN optPc' = "while" /\ passI' = 1
     ELSE optPc' = "for" /\ passI' = i + 1
  /\ UNCHANGED <<optInput, optCall, optFirst>>
  /\ UNCHANGED <<lexVars, compVars, frontVars, genVars>>

(* the caller passes the returned list to optimize again *)
OptAgain ==
  /\ optPc = "return"
  /\ optCall = 1
  /\ optCall' = 2
  /\ optFirst' = optimized
  /\ OptEnter(optimized)
  /\ UNCHANGED optInput
  /\ UNCHANGED <<lexVars, compVars, frontVars, genVars>>

(* a Compiler as its constructor leaves it, before any call of compile *)
CompIdle ==
  /\ scopes = NewSemanticAnalyzer.scopes
  /\ currentScope = NewSemanticAnalyzer.currentScope
  /\ errors = NewSemanticAnalyzer.errors
  /\ inherited = NewSemanticAnalyzer.inherited
  /\ instructions = <<>>
  /\ tempCounter = 0
  /\ labelCounter = 0
  /\ output = <<>>
  /\ indentLevel = 0
  /\ compPc = "idle"
  /\ compSource = ""
  /\ compResult = [success |-> TRUE, errors |-> <<>>]
  /\ compCalls = 0
  /\ prevSource = ""
  /\ prevResult = [success |-> TRUE, errors |-> <<>>]
  /\ parsePc = "idle"
  /\ parseOut = Ok(NullNode, 0)
  /\ semPc = "idle"
  /\ genPc = "idle"
  /\ genAst = NullNode
  /\ genCalls = 0

(***************************************************************************)
(* The instruction lists optimize is called with.                          *)
(***************************************************************************)
MaxIrLen == 3

T0 == Str("t0")

T1 == Str("t1")

T2 == Str("t2")

InstrUniverse ==
  { Instr("CONST", <<Num(2), T0>>),
    Instr("CONST", <<Num(3), T1>>),
    Instr("CONST", <<Str("t1"), T0>>),
    Instr("CONST", <<Str("hi"), T0>>),
    Instr("ADD", <<T0, T1, T2>>),
    Instr("NEG", <<T0, T1>>),
    Instr("LOAD", <<Str("x"), T1>>),
    Instr("STORE", <<T0, Str("x")>>),
    Instr("STORE", <<T0, Str("total")>>),
    Instr("LABEL", <<Str("else_0")>>),
    Instr("JUMP", <<Str("else_0")>>),
    Instr("JUMP_IF_FALSE", <<T0, Str("endif_1")>>),
    Instr("LABEL", <<Str("endif_1")>>),
    Instr("CALL", <<Str("f"), Arr(<<T0>>), T2>>),
    Instr("RETURN", <<T0>>),
    Instr("BLOCK_START", <<>>),
    Instr("BLOCK_END", <<>>) }

RECURSIVE SeqsUpTo(_, _)
SeqsUpTo(S, n) ==
  IF n = 0 THEN {<<>>}
  ELSE LET shorter == SeqsUpTo(S, n - 1)
       IN shorter \cup {Append(q, x) : q \in shorter, x \in S}

(* two numeric CONSTs of temporaries, then a binary arithmetic operation *)
FoldValues == {0, 2, 3}

FoldInputs ==
  {<<Instr("CONST", <<Num(a), T0>>), Instr("CONST", <<Num(b), T1>>),
     Instr(op, <<T0, T1, T2>>)>> :
     a \in FoldValues, b \in FoldValues, op \in {"ADD", "SUB", "MUL", "DIV"}}

(* a block in which x becomes a known constant (by a CONST that dead code *)
(* elimination keeps, its temporary being returned), its end marker, at   *)
(* most one more marker, and a LOAD of x                                  *)
LeakValues == {Num(2), Str("hi")}

LeakEnds == {Instr("BLOCK_END", <<>>), Instr("FUNCTION_END", <<Str("f")>>)}

LeakBetween ==
  {<<>>, <<Instr("BLOCK_START", <<>>)>>,
   <<Instr("FUNCTION_START", <<Str("g"), Arr(<<>>)>>)>>,
   <<Instr("BLOCK_END", <<>>)>>}

LeakInput(v, end, between) ==
  <<Instr("BLOCK_START", <<>>), Instr("CONST", <<v, T0>>),
    Instr("STORE", <<T0, Str("x")>>), Instr("RETURN", <<T0>>), end>>
    \o between \o <<Instr("LOAD", <<Str("x"), T1>>)>>

LeakInputs ==
  {LeakInput(v, end, between) :
     v \in LeakValues, end \in LeakEnds, between \in LeakBetween}

IrInputs == SeqsUpTo(InstrUniverse, MaxIrLen) \cup FoldInputs \cup LeakInputs

(* no call of optimize is in progress *)
OptIdle ==
  /\ optInput = <<>>
  /\ optimized = <<>>
  /\ changed = FALSE
  /\ optPc = "idle"
  /\ passI = 1
  /\ passIn = <<>>
  /\ optCall = 0
  /\ optFirst = <<>>

(* a Lexer of the empty source, as Compiler's constructor makes it *)
LexIdle ==
  /\ source = ""
  /\ position = 0
  /\ line = 1
  /\ column = 1
  /\ tokens = <<>>
  /\ lexPc = "idle"
  /\ lexError = NoLexError

OptInit ==
  /\ optInput \in IrInputs
  /\ optimized = optInput
  /\ changed = TRUE
  /\ optPc = "while"
  /\ passI = 1
  /\ passIn = <<>>
  /\ optCall = 1
  /\ optFirst = <<>>
  /\ LexIdle
  /\ CompIdle

OptNext ==
  \/ OptWhile
  \/ \E i \in 1..NumPasses : OptPass(i)
  \/ OptAgain

OptSpec == OptInit /\ [][OptNext]_vars

(* the loop of optimize is synchronous code: it takes its next step *)
FairOptSpec == OptSpec /\ WF_vars(OptNext)

(***************************************************************************)
(* tokenize as a state machine: one step per call of scanToken, and the    *)
(* step that adds the EOF token and returns.                               *)
(***************************************************************************)
LexerObj ==
  [source |-> source, position |-> position, line |-> line, column |-> column,
   tokens |-> tokens, error |-> NoLexError]

LexSet(L) ==
  /\ position' = L.position
  /\ line' = L.line
  /\ column' = L.column
  /\ tokens' = L.tokens
  /\ lexError' = L.error
  /\ UNCHANGED source

(* while (!this.isAtEnd()) { this.scanToken(); } *)
LexScanToken ==
  /\ lexPc = "scan"
  /\ ~Lexer_isAtEnd(LexerObj)
  /\ LET L == scanToken(LexerObj)
     IN /\ LexSet(L)
        /\ lexPc' = IF L.error # NoLexError THEN "error" ELSE "scan"
  /\ UNCHANGED <<optVars, compVars, frontVars, genVars>>

(* this.addToken("EOF", ""); return this.tokens; *)
LexEof ==
  /\ lexPc = "scan"
  /\ Lexer_isAtEnd(LexerObj)
  /\ LexSet(addToken(LexerObj, "EOF", ""))
  /\ lexPc' = "done"
  /\ UNCHANGED <<optVars, compVars, frontVars, genVars>>

(***************************************************************************)
(* The source texts tokenize is called with: every text of at most         *)
(* MaxSrcLen characters of LexAlphabet, and some program texts.            *)
(***************************************************************************)
MaxSrcLen == 4

LexAlphabet == {"=", "!", "<", ">", "\"", "\n", " ", "t", "0", ".", "/"}

RECURSIVE TextsUpTo(_, _)
TextsUpTo(A, n) ==
  IF n = 0 THEN {""}
  ELSE LET shorter == TextsUpTo(A, n - 1)
       IN shorter \cup {q \o c : q \in shorter, c \in A}

ProgramSources ==
  { "3.14", "while", "var x = 1 + 2 * 3;", "var t0 = 1;", "if (a <= b) x = 1;",
    "a == b", "a != b", "a >= b", "var total = \"hi\";", "\"tt\nt\" t",
    "// t\nt", "a && b", "a || b", "var 1x;" }

Sources == TextsUpTo(LexAlphabet, MaxSrcLen) \cup ProgramSources

LexInit ==
  /\ source \in Sources
  /\ position = 0
  /\ line = 1
  /\ column = 1
  /\ tokens = <<>>
  /\ lexPc = "scan"
  /\ lexError = NoLexError
  /\ OptIdle
  /\ CompIdle

LexNext == LexScanToken \/ LexEof

LexSpec == LexInit /\ [][LexNext]_vars

(***************************************************************************)
(* compile as a state machine on one Compiler: the call up to the call of  *)
(* optimize, the steps of optimize, and the rest of the call.              *)
(***************************************************************************)
AnalyzerObj ==
  [scopes |-> scopes, currentScope |-> currentScope, errors |-> errors,
   inherited |-> inherited]

GeneratorObj ==
  [instructions |-> instructions, tempCounter |-> tempCounter,
   labelCounter |-> labelCounter, ret |-> "", error |-> NoIRError]

(* how many calls of compile a run makes *)
MaxCompiles == 2

(* the programs compile is called with *)
(* const sampleCode *)
sampleCode ==
  "function computeFactorial(n) {\n  if (n <= 1) return 1;\n"
    \o "  return n * computeFactorial(n - 1);\n}\n\n"
    \o "function executeMain() {\n  return computeFactorial(5);\n}\n"

(* the opcode generateBinaryExpression has for an operator *)
BinaryOperators == {"+", "-", "*", "/", "==", "!=", "<", "<=", ">", ">="}

Opcode ==
  [op \in BinaryOperators |->
     CASE op = "+" -> "ADD" [] op = "-" -> "SUB" [] op = "*" -> "MUL"
       [] op = "/" -> "DIV" [] op = "==" -> "EQ" [] op = "!=" -> "NEQ"
       [] op = "<" -> "LT" [] op = "<=" -> "LTE" [] op = ">" -> "GT"
       [] op = ">=" -> "GTE"]

BinaryText(op) == "var a = 1; var b = a " \o op \o " 2;"

BinarySources == {BinaryText(op) : op \in BinaryOperators}

CompSources ==
  BinarySources \cup
  { sampleCode,
    "var x;",
    "var x = 1;",
    "x = 2;",
    "var y = 1 + 2 * 3; y;",
    "function f(a) { return a; } f(1);",
    "function g(p) { var q = 1; }",
    "if (1 < 2) { var t = 1; } else { }",
    "var i = 0; while (i < 3) i = i + 1;",
    "for (var k = 0; k < 2; k = k + 1) { k; }",
    "var s = \"hi\";",
    "var a = 1; var b = a <= 2;",
    "var n = -1; var m = !true;",
    "var x = ;",
    "var c = #;",
    "var 1x;",
    "var x; var x;",
    "var a = 1; var b = a == 1;",
    "var s = \"hi",
    "\"a\nb",
    "f(); g = 1;",
    "function h() { function k() { { } } k(); }" }

(* compile(source), up to and including the first lines of optimize; f is *)
(* the first half of the call                                             *)
CompileCallWith(src, f) ==
  /\ compSource' = src
  /\ compCalls' = compCalls + 1
  /\ prevSource' = compSource
  /\ prevResult' = compResult
  /\ compResult' = f.result
  /\ compPc' = IF f.returned THEN "returned" ELSE "optimize"
  /\ source' = src
  /\ position' = f.lexer.position
  /\ line' = f.lexer.line
  /\ column' = f.lexer.column
  /\ tokens' = f.lexer.tokens
  /\ lexError' = f.lexer.error
  /\ lexPc' = IF f.lexer.error # NoLexError THEN "error" ELSE "done"
  /\ scopes' = f.analyzer.scopes
  /\ currentScope' = f.analyzer.currentScope
  /\ errors' = f.analyzer.errors
  /\ inherited' = f.analyzer.inherited
  /\ instructions' = f.generator.instructions
  /\ tempCounter' = f.generator.tempCounter
  /\ labelCounter' = f.generator.labelCounter
  /\ IF f.returned
     THEN UNCHANGED optVars
     ELSE /\ optInput' = f.result.ir
          /\ OptEnter(f.result.ir)
          /\ optCall' = 0
          /\ optFirst' = <<>>
  /\ IF "tokens" \in DOMAIN f.result
     THEN /\ parseOut' = parse(f.lexer.tokens)
          /\ parsePc' = IF "ast" \in DOMAIN f.result THEN "returned" ELSE "thrown"
          /\ semPc' = IF "ast" \in DOMAIN f.result THEN "returned" ELSE semPc
     ELSE UNCHANGED frontVars
  /\ IF "ast" \in DOMAIN f.result /\ f.analyzer.errors = <<>>
     THEN /\ genPc' = IF f.generator.error = NoIRError THEN "returned" ELSE "thrown"
          /\ genAst' = f.result.ast
          /\ genCalls' = genCalls + 1
     ELSE UNCHANGED genVars
  /\ UNCHANGED <<output, indentLevel>>

CompileCall ==
  /\ compPc \in {"idle", "returned"}
  /\ compCalls < MaxCompiles
  /\ \E src \in CompSources :
       CompileCallWith(src, CompileFirstHalf(AnalyzerObj, GeneratorObj, src))

(* optimize has returned: the rest of compile; g is the second half of the *)
(* call                                                                    *)
CompileFinishWith(g) ==
  /\ compResult' = g.result
  /\ output' = g.codeGenerator.output
  /\ indentLevel' = g.codeGenerator.indentLevel
  /\ compPc' = "returned"
  /\ optPc' = "idle"
  /\ UNCHANGED <<optInput, optimized, changed, passI, passIn, optCall, optFirst>>
  /\ UNCHANGED <<lexVars, frontVars, genVars>>
  /\ UNCHANGED <<compSource, compCalls, prevSource, prevResult, scopes,
                 currentScope, errors, inherited, instructions, tempCounter,
                 labelCounter>>

CompileFinish ==
  /\ compPc = "optimize"
  /\ optPc = "return"
  /\ CompileFinishWith(CompileSecondHalf(compResult,
                                         CodeGenerator_generate(optimized),
                                         optimized))

CompInit == CompIdle /\ OptIdle /\ LexIdle

CompNext ==
  \/ CompileCall
  \/ OptWhile
  \/ \E i \in 1..NumPasses : OptPass(i)
  \/ CompileFinish

CompSpec == CompInit /\ [][CompNext]_vars

(***************************************************************************)
(* The front end, phase by phase, on the objects compile makes: tokenize   *)
(* (the steps of LexSpec), then new Parser(tokens).parse(), then analyze   *)
(* on a new SemanticAnalyzer.                                              *)
(***************************************************************************)

(* this.parser = new Parser(tokens); const ast = this.parser.parse(); *)
ParseCall ==
  /\ lexPc = "done"
  /\ parsePc = "idle"
  /\ parseOut' = parse(tokens)
  /\ parsePc' = IF parse(tokens).ok THEN "returned" ELSE "thrown"
  /\ UNCHANGED <<optVars, lexVars, compVars, semPc, genVars>>

(* const semanticErrors = this.semanticAnalyzer.analyze(ast); *)
AnalyzeCallWith(A) ==
  /\ scopes' = A.scopes
  /\ currentScope' = A.currentScope
  /\ errors' = A.errors
  /\ inherited' = A.inherited
  /\ semPc' = "returned"
  /\ UNCHANGED <<instructions, tempCounter, labelCounter, output, indentLevel,
                 compPc, compSource, compResult, compCalls, prevSource,
                 prevResult>>
  /\ UNCHANGED <<optVars, lexVars, parsePc, parseOut, genVars>>

AnalyzeCall ==
  /\ parsePc = "returned"
  /\ semPc = "idle"
  /\ AnalyzeCallWith(analyze(AnalyzerObj, parseOut.node))

(* n copies of a text *)
RECURSIVE RepeatText(_, _)
RepeatText(text, n) ==
  IF n = 0 THEN ""
  ELSE LET half == RepeatText(text, n \div 2)
       IN half \o half \o (IF n % 2 = 1 THEN text ELSE "")

(* the left sides of the assignments parsed *)
InvalidTargets == {"a.b", "f()", "1", "(a)", "a + b", "\"s\"", "-a"}

AssignSources == {target \o " = 2;" : target \in InvalidTargets \cup {"a"}}

(* function f(a, a, ..., a) { } with n parameters *)
FunctionWithParams(n) ==
  "function f(" \o (IF n = 0 THEN "" ELSE RepeatText("a,", n - 1) \o "a") \o "){}"

ParamCounts == {0, 1, 2, MaxParams, MaxParams + 1}

ParamSources == {FunctionWithParams(n) : n \in ParamCounts}

(* statements with a syntax fault: the text, the message of the error the *)
(* grammar gives for it, and the place among the tokens of the text, from *)
(* 0, of the token the error is about                                     *)
Faults ==
  { [text |-> "var 1;",   message |-> "Expect variable name.", at |-> 1],
    [text |-> "var x = ;", message |-> "Expect expression.", at |-> 3],
    [text |-> "x + ;",    message |-> "Expect expression.", at |-> 2],
    [text |-> "(x;",      message |-> "Expect ')' after expression.", at |-> 2],
    [text |-> "var y 2;", message |-> "Expect ';' after variable declaration.", at |-> 2],
    [text |-> "if x;",    message |-> "Expect '(' after 'if'.", at |-> 1] }

(* what stands before and after the first fault: nothing, a statement     *)
(* before it, a block around it, a function around it                     *)
FaultFrames ==
  { [before |-> "", after |-> " "],
    [before |-> "var a = 1; ", after |-> " "],
    [before |-> "{ ", after |-> " } "],
    [before |-> "function f() { { ", after |-> " } } "] }

(* a text with two faults *)
FaultCases == [frame : FaultFrames, first : Faults, second : Faults]

FaultText(case) ==
  case.frame.before \o case.first.text \o case.frame.after \o case.second.text

FaultSources == {FaultText(case) : case \in FaultCases}

(* the binary operators with their level of binding: multiplicative 4,    *)
(* additive 3, relational 2, equality 1                                   *)
OperatorLevel ==
  [op \in {"*", "/", "+", "-", "<", "<=", ">", ">=", "==", "!="} |->
     CASE op \in {"*", "/"} -> 4
       [] op \in {"+", "-"} -> 3
       [] op \in {"<", "<=", ">", ">="} -> 2
       [] op \in {"==", "!="} -> 1]

TwoOperatorText(op1, op2) == "a " \o op1 \o " b " \o op2 \o " c;"

PrecedenceSources ==
  {TwoOperatorText(op1, op2) : op1 \in DOMAIN OperatorLevel, op2 \in DOMAIN OperatorLevel}
    \cup {"var x = 1 + 2 * 3;"}

(* programs that declare one name twice: in one scope, in a block inside   *)
(* the scope of the first declaration, and in the body of a function that  *)
(* has the name as its parameter                                           *)
DeclKinds == {"var", "varInit", "function"}

DeclNames == {"x", "valueOf"}

DeclText(kind, name) ==
  CASE kind = "var" -> "var " \o name \o ";"
    [] kind = "varInit" -> "var " \o name \o " = 1;"
    [] kind = "function" -> "function " \o name \o "() { }"

SameScopeText(kind1, kind2, name) ==
  DeclText(kind1, name) \o " " \o DeclText(kind2, name)

SameBlockText(kind1, kind2, name) ==
  "{ " \o SameScopeText(kind1, kind2, name) \o " }"

InnerBlockText(kind1, kind2, name) ==
  DeclText(kind1, name) \o " { " \o DeclText(kind2, name) \o " " \o name \o "; }"

ParameterText(kind2, name) ==
  "function f(" \o name \o ") { " \o DeclText(kind2, name) \o " " \o name \o "; }"

DeclSources ==
  {SameScopeText(k1, k2, n) : k1 \in DeclKinds, k2 \in DeclKinds, n \in DeclNames}
    \cup {SameBlockText(k1, k2, n) : k1 \in DeclKinds, k2 \in DeclKinds, n \in DeclNames}
    \cup {InnerBlockText(k1, k2, n) : k1 \in DeclKinds, k2 \in DeclKinds, n \in DeclNames}
    \cup {ParameterText(k2, n) : k2 \in DeclKinds, n \in DeclNames}

(* programs that read one name: undeclared, declared without and with an   *)
(* initializer, assigned before the read, and assigned by the statement    *)
(* that reads it                                                           *)
ReadKinds ==
  {"undeclared", "undeclaredInBlock", "undeclaredOperand", "undeclaredTwice",
   "uninitialized", "uninitializedOuter", "initialized", "initializedOuter",
   "assigned", "assignedInBlock", "assignedFromItself"}

ReadText(kind, name) ==
  CASE kind = "undeclared" -> name \o ";"
    [] kind = "undeclaredInBlock" -> "{ " \o name \o "; }"
    [] kind = "undeclaredOperand" -> "var z = " \o name \o " + 1;"
    [] kind = "undeclaredTwice" -> name \o "; " \o name \o ";"
    [] kind = "uninitialized" -> "var " \o name \o "; " \o name \o ";"
    [] kind = "uninitializedOuter" -> "var " \o name \o "; { " \o name \o "; }"
    [] kind = "initialized" -> "var " \o name \o " = 1; " \o name \o ";"
    [] kind = "initializedOuter" -> "var " \o name \o " = 1; { " \o name \o "; }"
    [] kind = "assigned" ->
         "var " \o name \o "; " \o name \o " = 1; " \o name \o ";"
    [] kind = "assignedInBlock" ->
         "var " \o name \o "; { " \o name \o " = 1; } " \o name \o ";"
    [] kind = "assignedFromItself" ->
         "var " \o name \o "; " \o name \o " = " \o name \o ";"

ReadSources == {ReadText(kind, name) : kind \in ReadKinds, name \in DeclNames}

(* programs with one binding in a block, a function (a parameter), a for   *)
(* header or the global scope, that is never mentioned again, read,        *)
(* assigned, or read in a nested block                                     *)
ScopeKinds == {"block", "function", "forHeader", "global"}

UseKinds == {"none", "read", "written", "readInBlock"}

UseText(use, name) ==
  CASE use = "none" -> ""
    [] use = "read" -> name \o ";"
    [] use = "written" -> name \o " = 2;"
    [] use = "readInBlock" -> "{ " \o name \o "; }"

ScopeText(scope, use, name) ==
  CASE scope = "block" -> "{ var " \o name \o " = 1; " \o UseText(use, name) \o " }"
    [] scope = "function" ->
         "function f(" \o name \o ") { " \o UseText(use, name) \o " }"
    [] scope = "forHeader" ->
         "for (var " \o name \o " = 0; ; ) { " \o UseText(use, name) \o " }"
    [] scope = "global" -> "var " \o name \o " = 1; " \o UseText(use, name)

TwoBindingsText(name) == "{ var " \o name \o " = 1; var u = 2; " \o name \o "; }"

ScopeSources ==
  {ScopeText(scope, use, name) :
     scope \in ScopeKinds, use \in UseKinds, name \in DeclNames}
    \cup {TwoBindingsText(name) : name \in DeclNames}

FrontSources ==
  AssignSources \cup ParamSources \cup FaultSources \cup PrecedenceSources
    \cup DeclSources \cup ReadSources \cup ScopeSources

FrontInit ==
  /\ source \in FrontSources
  /\ position = 0
  /\ line = 1
  /\ column = 1
  /\ tokens = <<>>
  /\ lexPc = "scan"
  /\ lexError = NoLexError
  /\ OptIdle
  /\ CompIdle

FrontNext == LexScanToken \/ LexEof \/ ParseCall \/ AnalyzeCall

FrontSpec == FrontInit /\ [][FrontNext]_vars

(***************************************************************************)
(* IRGenerator.generate called directly, several times on one instance,    *)
(* on the trees parse returns for programs with if statements and loops    *)
(* and on trees with LogicalExpression nodes.                              *)
(***************************************************************************)
MaxGenerates == 3

AstOf(src) == parse(tokenize(src).tokens).node

IfConditions == {"a", "a < 1"}

IfBranches ==
  {"b = 1;", "{ b = 1; }", "if (c) d = 1;", "if (c) d = 1; else d = 2;",
   "while (c) d = 1;"}

IfElses == {"", " else e = 1;", " else if (c) f = 1; else f = 2;"}

IfPrefixes == {"", "if (p) q = 1; "}

IfText(prefix, cond, branch, else) ==
  prefix \o "if (" \o cond \o ") " \o branch \o else

IfSources ==
  {IfText(prefix, cond, branch, else) :
     prefix \in IfPrefixes, cond \in IfConditions, branch \in IfBranches,
     else \in IfElses}

LoopSources ==
  {"while (a) { if (b) c = 1; }",
   "for (;;) { }",
   "for (var i = 0; i < 2; i = i + 1) { if (i) a = 1; else a = 2; }",
   "function f(a) { if (a) return 1; return 2; }",
   "a == 1;"}

Ident(name) == [type |-> "Identifier", name |-> name]

Logical(operator, left, right) ==
  [type |-> "LogicalExpression", operator |-> operator, left |-> left,
   right |-> right]

ProgramOf(stmt) == [type |-> "Program", body |-> <<stmt>>]

LogicalAsts ==
  {ProgramOf([type |-> "ExpressionStatement",
              expression |-> Logical(op1, Ident("a"),
                                     Logical(op2, Ident("b"), Ident("c")))]) :
     op1 \in {"&&", "||"}, op2 \in {"&&", "||"}}
    \cup
  {ProgramOf([type |-> "IfStatement",
              condition |-> Logical(op, Ident("a"), Ident("b")),
              thenBranch |-> [type |-> "ExpressionStatement",
                              expression |-> Logical(op, Ident("c"), Ident("d"))],
              elseBranch |-> NullNode]) : op \in {"&&", "||"}}

GenAsts == {AstOf(src) : src \in IfSources \cup LoopSources} \cup LogicalAsts

(* generate(ast) on the generator; g is the generator after the call *)
GenerateCallWith(ast, g) ==
  /\ instructions' = g.instructions
  /\ tempCounter' = g.tempCounter
  /\ labelCounter' = g.labelCounter
  /\ genPc' = IF g.error = NoIRError THEN "returned" ELSE "thrown"
  /\ genAst' = ast
  /\ genCalls' = genCalls + 1
  /\ UNCHANGED <<scopes, currentScope, errors, inherited, output, indentLevel,
                 compPc, compSource, compResult, compCalls, prevSource,
                 prevResult>>
  /\ UNCHANGED <<optVars, lexVars, frontVars>>

GenerateCall ==
  /\ genCalls < MaxGenerates
  /\ \E ast \in GenAsts :
       GenerateCallWith(ast, IRGenerator_generate(GeneratorObj, ast))

GenInit == CompIdle /\ OptIdle /\ LexIdle

GenNext == GenerateCall

GenSpec == GenInit /\ [][GenNext]_vars

(***************************************************************************)
(* Claims about the Parser, checked under FrontSpec.                       *)
(***************************************************************************)

(* the index in toks, from 0, of the first token of the given type *)
FirstOfType(toks, type) ==
  CHOOSE i \in 0..(Len(toks) - 1) :
    /\ toks[i + 1].type = type
    /\ \A j \in 0..(i - 1) : toks[j + 1].type # type

(* C12: parsing an assignment whose left side is not a bare identifier    *)
(* throws the SyntaxError "Invalid assignment target." at the = token,    *)
(* and returns no AST.                                                    *)
C12_InvalidAssignmentTarget ==
  (parsePc # "idle" /\ source \in {target \o " = 2;" : target \in InvalidTargets})
    => /\ parsePc = "thrown"
       /\ parseOut.error.message = "Invalid assignment target."
       /\ parseOut.error.token = tokens[FirstOfType(tokens, "EQUAL") + 1]

(* C13: parsing a function declaration with more than 255 parameters      *)
(* throws the SyntaxError "Cannot have more than 255 parameters.".        *)
C13_ParameterLimit ==
  (parsePc # "idle" /\ source = FunctionWithParams(MaxParams + 1))
    => /\ parsePc = "thrown"
       /\ parseOut.error.message = "Cannot have more than 255 parameters."

(* the cursor is where synchronize leaves it: at EOF, just past a         *)
(* semicolon, or at a token that starts a declaration or statement        *)
AtSyncPoint(toks, cur) ==
  \/ Parser_isAtEnd(toks, cur)
  \/ cur > 0 /\ Parser_previous(toks, cur).type = "SEMICOLON"
  \/ Parser_peek(toks, cur).type \in {"FUNCTION", "VAR", "FOR", "IF", "WHILE", "RETURN"}

(* C14: on a token sequence with syntax faults parse throws the first     *)
(* SyntaxError raised, with its message and token; the synchronisation    *)
(* run in every enclosing declaration() leaves the cursor at a            *)
(* synchronisation point and neither replaces nor swallows the error.     *)
C14_FirstErrorThrown ==
  \A case \in FaultCases :
    (parsePc # "idle" /\ source = FaultText(case))
      => /\ parsePc = "thrown"
         /\ parseOut.error.message = case.first.message
         /\ parseOut.error.token =
              tokens[Len(tokenize(case.frame.before).tokens) + case.first.at]
         /\ AtSyncPoint(tokens, parseOut.cur)

C14_Witness ==
  /\ parsePc = "thrown"
  /\ \E case \in FaultCases :
       /\ source = FaultText(case)
       /\ case.frame.before = "{ "
       /\ case.first.message # case.second.message
       /\ parseOut.error.message = case.first.message
  /\ parseOut.cur > 0
  /\ ~Parser_isAtEnd(tokens, parseOut.cur)

(* the node is left op (middle op2 right), the operators being the texts  *)
(* of the tokens op and op2                                               *)
NestedRight(node, op, left, op2, middle, right) ==
  /\ node.type = "BinaryExpression"
  /\ node.operator = op.value
  /\ node.left = left
  /\ node.right = [type |-> "BinaryExpression", operator |-> op2.value,
                   left |-> middle, right |-> right]

(* C15: the parser respects operator precedence: in a op1 b op2 c, op2    *)
(* binding more tightly than op1, the operation op2 is the right operand  *)
(* of the BinaryExpression of op1; var x = 1 + 2 * 3; has the             *)
(* multiplication inside the right operand of the addition, with numeric  *)
(* literal values.                                                        *)
C15_Precedence ==
  /\ \A op1, op2 \in DOMAIN OperatorLevel :
       (/\ parsePc # "idle"
        /\ source = TwoOperatorText(op1, op2)
        /\ OperatorLevel[op1] < OperatorLevel[op2])
         => /\ parsePc = "returned"
            /\ Len(parseOut.node.body) = 1
            /\ parseOut.node.body[1].type = "ExpressionStatement"
            /\ NestedRight(parseOut.node.body[1].expression, tokens[2],
                           [type |-> "Identifier", name |-> "a"], tokens[4],
                           [type |-> "Identifier", name |-> "b"],
                           [type |-> "Identifier", name |-> "c"])
  /\ (parsePc # "idle" /\ source = "var x = 1 + 2 * 3;")
       => /\ parsePc = "returned"
          /\ Len(parseOut.node.body) = 1
          /\ parseOut.node.body[1].type = "VariableDeclaration"
          /\ parseOut.node.body[1].name = "x"
          /\ NestedRight(parseOut.node.body[1].initializer,
                         [value |-> "+"], [type |-> "Literal", value |-> Num(1)],
                         [value |-> "*"], [type |-> "Literal", value |-> Num(2)],
                         [type |-> "Literal", value |-> Num(3)])

C15_Witness ==
  /\ parsePc = "returned"
  /\ source = TwoOperatorText("==", "*")
  /\ parseOut.node.body[1].expression.right.operator = "*"

(***************************************************************************)
(* Claims about the SemanticAnalyzer, checked under FrontSpec.             *)
(***************************************************************************)
Messages(errs) == [i \in DOMAIN errs |-> errs[i].message]

AlreadyDeclared(kind, name) ==
  (IF kind = "function" THEN "Function '" ELSE "Variable '")
    \o name \o "' already declared in this scope"

NeverUsed(name) == "Variable '" \o name \o "' is declared but never used"

(* the entry a declaration makes *)
DeclEntry(kind, name) ==
  [name |-> name,
   type |-> IF kind = "function" THEN "function" ELSE "variable",
   initialized |-> kind # "var", used |-> FALSE]

NoAlreadyDeclared(errs) ==
  \A i \in DOMAIN errs, kind \in DeclKinds, name \in DeclNames \cup {"f"} :
    errs[i].message # AlreadyDeclared(kind, name)

(* C18: a declaration of a name the innermost scope already holds adds     *)
(* exactly one 'already declared in this scope' error and leaves the entry *)
(* of the first declaration as it was; a declaration of a name that only   *)
(* an outer scope holds adds no such error and makes a new entry, which    *)
(* a read in the inner scope finds (the outer entry stays unused).         *)
C18_DuplicateDeclaration ==
  \A kind1, kind2 \in DeclKinds, name \in DeclNames :
    semPc = "returned" =>
      /\ source = SameScopeText(kind1, kind2, name)
           => /\ Messages(errors) = <<AlreadyDeclared(kind2, name)>>
              /\ currentScope = <<DeclEntry(kind1, name)>>
      /\ source = SameBlockText(kind1, kind2, name)
           => Messages(errors) = <<AlreadyDeclared(kind2, name), NeverUsed(name)>>
      /\ source = InnerBlockText(kind1, kind2, name)
           => /\ NoAlreadyDeclared(errors)
              /\ currentScope = <<DeclEntry(kind1, name)>>
      /\ source = ParameterText(kind2, name)
           => /\ NoAlreadyDeclared(errors)
              /\ \E i \in DOMAIN errors :
                   errors[i].message = "Parameter '" \o name \o "' is never used"

UsedBeforeDeclaration(name) == "Variable '" \o name \o "' used before declaration"

UsedBeforeInitialization(name) ==
  "Variable '" \o name \o "' used before initialization"

(* the messages analyze is to return for a program of ReadSources *)
ReadMessages(kind, name) ==
  CASE kind \in {"undeclared", "undeclaredInBlock", "undeclaredOperand"} ->
         <<UsedBeforeDeclaration(name)>>
    [] kind = "undeclaredTwice" ->
         <<UsedBeforeDeclaration(name), UsedBeforeDeclaration(name)>>
    [] kind \in {"uninitialized", "uninitializedOuter", "assignedFromItself"} ->
         <<UsedBeforeInitialization(name)>>
    [] OTHER -> <<>>

(* C19: a read of a name no enclosing scope declares gives exactly one     *)
(* 'used before declaration' error; a read of a variable declared without  *)
(* initializer and not assigned before the read gives 'used before         *)
(* initialization'; a read of a variable that was initialized or assigned  *)
(* gives neither.                                                          *)
C19_ReadDiagnostics ==
  \A kind \in ReadKinds, name \in DeclNames :
    (semPc = "returned" /\ source = ReadText(kind, name))
      => Messages(errors) = ReadMessages(kind, name)

(* analyze returned an unused diagnostic for the name *)
ReportedUnused(errs, name) ==
  \E i \in DOMAIN errs :
    errs[i].message \in {NeverUsed(name), "Parameter '" \o name \o "' is never used"}

(* C20: the errors analyze returns hold an unused diagnostic for a binding *)
(* of a block, function or for-header scope exactly if the program never   *)
(* reads the binding, and none for a binding of the global scope.          *)
C20_UnusedOnScopeExit ==
  semPc = "returned" =>
    /\ \A scope \in ScopeKinds, use \in UseKinds, name \in DeclNames :
         source = ScopeText(scope, use, name)
           => /\ ReportedUnused(errors, name)
                   <=> (scope # "global" /\ use \notin {"read", "readInBlock"})
              /\ ~ReportedUnused(errors, "f")
    /\ \A name \in DeclNames :
         source = TwoBindingsText(name)
           => ReportedUnused(errors, "u") /\ ~ReportedUnused(errors, name)

(* C21: the scope a function declaration opens holds the parameters and    *)
(* the declarations at the top level of the body: a variable declared      *)
(* there under the name of a parameter is reported as already declared in  *)
(* this scope; a read of a parameter in the body is a read of an           *)
(* initialized name.                                                       *)
C21_FunctionScope ==
  \A name \in DeclNames :
    semPc = "returned" =>
      /\ \A kind \in {"var", "varInit"} :
           source = ParameterText(kind, name)
             => \E i \in DOMAIN errors :
                  errors[i].message = AlreadyDeclared(kind, name)
      /\ source = ScopeText("function", "read", name)
           => \A i \in DOMAIN errors :
                errors[i].message # UsedBeforeInitialization(name)

(* the diagnostics analyze returned about the name being unused *)
UnusedDiagnostics(errs, name) ==
  {i \in DOMAIN errs :
     errs[i].message \in {NeverUsed(name), "Parameter '" \o name \o "' is never used"}}

(* C30: for function f(p) { ... } analyze returns exactly one diagnostic   *)
(* about p when the body never reads p, and none when it reads p.          *)
C30_OneDiagnosticPerParameter ==
  \A use \in UseKinds, name \in DeclNames :
    (semPc = "returned" /\ source = ScopeText("function", use, name))
      => Cardinality(UnusedDiagnostics(errors, name))
           = (IF use \in {"read", "readInBlock"} THEN 0 ELSE 1)

(***************************************************************************)
(* Claims about the IRGenerator, checked under GenSpec.                    *)
(***************************************************************************)
(* the label an instruction names *)
LabelOf(instr) ==
  IF instr.op \in {"LABEL", "JUMP"} THEN instr.args[1].s ELSE instr.args[2].s

LabelsAt(ir, name) ==
  {i \in DOMAIN ir : ir[i].op = "LABEL" /\ LabelOf(ir[i]) = name}

(* C23: in the list generate returns every label name is the name of       *)
(* exactly one LABEL instruction and every jump names a LABEL of the       *)
(* list; the list is the one a new IRGenerator returns for the same tree,  *)
(* whatever calls came before.                                             *)
C23_LabelsUnique ==
  genPc = "returned" =>
    /\ \A i \in DOMAIN instructions :
         instructions[i].op \in JumpOps \cup {"LABEL"}
           => Cardinality(LabelsAt(instructions, LabelOf(instructions[i]))) = 1
    /\ instructions = IRGenerator_generate(NewIRGenerator, genAst).instructions

C23_Witness ==
  /\ genPc = "returned"
  /\ genCalls = MaxGenerates
  /\ Cardinality({i \in DOMAIN instructions : instructions[i].op = "LABEL"}) >= 4
  /\ \E i \in DOMAIN instructions : instructions[i].op = "JUMP_IF_TRUE"

(* the opcodes of the code of a tree, which do not depend on the counters *)
OpsOf(node) ==
  LET code == IRGenerator_generate(NewIRGenerator, node).instructions
  IN [i \in DOMAIN code |-> code[i].op]

OpsAt(ir, start, n) == [i \in 1..n |-> ir[start + i].op]

(* the code of an IfStatement lies in ir from start + 1 on, in the order   *)
(* condition, JUMP_IF_FALSE else, then-branch, JUMP end, LABEL else,       *)
(* else-branch, LABEL end, with labels no other LABEL of ir has            *)
IfLayoutAt(ir, start, node) ==
  LET c == OpsOf(node.condition)
      t == OpsOf(node.thenBranch)
      e == IF node.elseBranch # NullNode THEN OpsOf(node.elseBranch) ELSE <<>>
      jumpIfFalse == start + Len(c) + 1
      jump == jumpIfFalse + Len(t) + 1
      end == jump + 1 + Len(e) + 1
  IN /\ end <= Len(ir)
     /\ OpsAt(ir, start, Len(c)) = c
     /\ ir[jumpIfFalse].op = "JUMP_IF_FALSE"
     /\ \E i \in (start + 1)..(jumpIfFalse - 1) :
          ir[jumpIfFalse].args[1] = ir[i].args[Len(ir[i].args)]
     /\ OpsAt(ir, jumpIfFalse, Len(t)) = t
     /\ ir[jump].op = "JUMP"
     /\ ir[jump + 1].op = "LABEL"
     /\ LabelOf(ir[jump + 1]) = LabelOf(ir[jumpIfFalse])
     /\ OpsAt(ir, jump + 1, Len(e)) = e
     /\ ir[end].op = "LABEL"
     /\ LabelOf(ir[end]) = LabelOf(ir[jump])
     /\ LabelOf(ir[end]) # LabelOf(ir[jump + 1])
     /\ LabelsAt(ir, LabelOf(ir[end])) = {end}
     /\ LabelsAt(ir, LabelOf(ir[jump + 1])) = {jump + 1}

RECURSIVE IfLayout(_, _, _), EachIfLayout(_, _, _, _)

(* IfLayoutAt for every IfStatement in the tree whose code starts after    *)
(* ir[start]                                                               *)
IfLayout(ir, start, node) ==
  CASE node.type = "IfStatement" ->
         /\ IfLayoutAt(ir, start, node)
         /\ IfLayout(ir, start + Len(OpsOf(node.condition)) + 1, node.thenBranch)
         /\ node.elseBranch # NullNode
              => IfLayout(ir, start + Len(OpsOf(node.condition))
                                + Len(OpsOf(node.thenBranch)) + 3, node.elseBranch)
    [] node.type = "Program" -> EachIfLayout(ir, start, node.body, 1)
    [] node.type = "BlockStatement" -> EachIfLayout(ir, start + 1, node.body, 1)
    [] node.type = "FunctionDeclaration" -> IfLayout(ir, start + 1, node.body)
    [] node.type = "WhileStatement" ->
         IfLayout(ir, start + Len(OpsOf(node.condition)) + 2, node.body)
    [] node.type = "ForStatement" ->
         IfLayout(ir, start
                        + (IF node.initializer # NullNode
                           THEN Len(OpsOf(node.initializer)) ELSE 0)
                        + 1
                        + (IF node.condition # NullNode
                           THEN Len(OpsOf(node.condition)) + 1 ELSE 0),
                  node.body)
    [] OTHER -> TRUE

EachIfLayout(ir, start, nodes, i) ==
  IF i > Len(nodes) THEN TRUE
  ELSE /\ IfLayout(ir, start, nodes[i])
       /\ EachIfLayout(ir, start + Len(OpsOf(nodes[i])), nodes, i + 1)

RECURSIVE CountIfs(_)

(* the number of IfStatement nodes among the statements of a tree *)
CountIfs(node) ==
  CASE node.type = "IfStatement" ->
         1 + CountIfs(node.thenBranch)
           + (IF node.elseBranch # NullNode THEN CountIfs(node.elseBranch) ELSE 0)
    [] node.type \in {"Program", "BlockStatement"} ->
         IF node.body = <<>> THEN 0
         ELSE CountIfs(node.body[1]) + CountIfs([node EXCEPT !.body = Tail(@)])
    [] node.type \in {"FunctionDeclaration", "WhileStatement", "ForStatement"} ->
         CountIfs(node.body)
    [] OTHER -> 0

(* C25: in the list generate returns, the code of every IfStatement of the *)
(* tree is the condition's code, JUMP_IF_FALSE to the else-label, the      *)
(* then-branch, JUMP to the end-label, LABEL else, the else-branch if      *)
(* there is one, LABEL end; the two labels differ from each other and      *)
(* from the labels of every other LABEL instruction.                       *)
C25_IfLowering ==
  genPc = "returned" => IfLayout(instructions, 0, genAst)

C25_Witness ==
  /\ genPc = "returned"
  /\ CountIfs(genAst) >= 4
  /\ \E i \in DOMAIN instructions : instructions[i].op = "JUMP_IF_FALSE"

(***************************************************************************)
(* Claims about the CodeGenerator, checked under CompSpec.                 *)
(***************************************************************************)
StartMarkers == {"FUNCTION_START", "BLOCK_START"}

EndMarkers == {"FUNCTION_END", "BLOCK_END"}

(* the number of markers open after ir[i] *)
OpenMarkers(ir, i) ==
  Cardinality({j \in 1..i : ir[j].op \in StartMarkers})
    - Cardinality({j \in 1..i : ir[j].op \in EndMarkers})

ProperlyNested(ir) ==
  /\ \A i \in DOMAIN ir : OpenMarkers(ir, i) >= 0
  /\ OpenMarkers(ir, Len(ir)) = 0

(* the lines generate writes for ir[i]: FUNCTION_END writes two, every     *)
(* other instruction one, after the lines of the header                    *)
LinesFor(ir, i) ==
  LET first == Len(Preamble.output) + i
                 + Cardinality({j \in 1..(i - 1) : ir[j].op = "FUNCTION_END"})
  IN IF ir[i].op = "FUNCTION_END" THEN {first, first + 1} ELSE {first}

(* the markers open when the lines of ir[i] are written: an end marker     *)
(* closes before it writes                                                 *)
OpenAt(ir, i) ==
  IF ir[i].op \in EndMarkers THEN OpenMarkers(ir, i) ELSE OpenMarkers(ir, i - 1)

LeadingSpaces(ln) ==
  CHOOSE n \in 0..Len(ln) :
    /\ \A j \in 1..n : CharAt(ln, j) = " "
    /\ n = Len(ln) \/ CharAt(ln, n + 1) # " "

(* C24: for the IR compile hands to the code generator the markers are     *)
(* properly nested, every line written for an instruction is indented by   *)
(* two spaces for each open marker, and the indent level is 0 after the    *)
(* last instruction.                                                       *)
C24_Indentation ==
  (compPc = "returned" /\ "optimizedIr" \in DOMAIN compResult)
    => /\ ProperlyNested(compResult.optimizedIr)
       /\ "code" \in DOMAIN compResult
       /\ indentLevel = 0
       /\ \A i \in DOMAIN compResult.optimizedIr :
            \A k \in LinesFor(compResult.optimizedIr, i) :
              /\ k <= Len(output)
              /\ LeadingSpaces(output[k]) = 2 * OpenAt(compResult.optimizedIr, i)

C24_Witness ==
  /\ compPc = "returned"
  /\ "code" \in DOMAIN compResult
  /\ \E i \in DOMAIN compResult.optimizedIr :
       /\ OpenMarkers(compResult.optimizedIr, i) >= 4
       /\ \E k \in DOMAIN output : LeadingSpaces(output[k]) = 8

(***************************************************************************)
(* Claims about the Optimizer, checked under OptSpec / FairOptSpec.        *)
(***************************************************************************)
Range(q) == {q[i] : i \in 1..Len(q)}

(* the last pass that ran was deadCodeElimination, called with passIn;     *)
(* optimized is the list it returned                                       *)
DceRan == optPc = "for" /\ passI = 3

(* C2: optimize is total: the round loop reaches a round in which no pass *)
(* reports a change, and optimize returns.                                *)
C2_OptimizeReturns == <>(optPc = "return")

(* C3, as the spec states it: [CONST(2,t0), CONST(3,t1), ADD(t0,t1,t2)]   *)
(* optimizes to exactly one instruction, [CONST(5,t2)].                   *)
C3_Example ==
  <<Instr("CONST", <<Num(2), T0>>), Instr("CONST", <<Num(3), T1>>),
    Instr("ADD", <<T0, T1, T2>>)>>

C3_FoldsToOneConst ==
  (optCall = 1 /\ optPc = "return" /\ optInput = C3_Example)
    => optimized = <<Instr("CONST", <<Num(5), T2>>)>>

(* C3, amended: two numeric CONSTs of temporaries followed by a binary    *)
(* arithmetic operation on them optimize to the empty list: the operation *)
(* is folded to a CONST, and dead code elimination then drops all three   *)
(* CONSTs, since nothing reads t0, t1 or t2.                              *)
C3_FoldsToNothing ==
  (optCall = 1 /\ optPc = "return" /\ optInput \in FoldInputs)
    => optimized = <<>>

C3_Witness ==
  optCall = 1 /\ optPc = "return" /\ optInput = C3_Example /\ optimized = <<>>

(* every string inside a value: the value itself, or the elements of an   *)
(* argument list                                                          *)
RECURSIVE NamesIn(_)
NamesIn(v) ==
  IF v.k = "string" THEN {v}
  ELSE IF v.k = "array" THEN UNION {NamesIn(v.l[i]) : i \in 1..Len(v.l)}
  ELSE {}

(* the names that appear as an argument of an instruction of ir other     *)
(* than as the destination of a STORE or CONST                            *)
ReadNames(ir) ==
  UNION {NamesIn(ir[i].args[a]) :
           <<i, a>> \in {<<j, b>> \in (1..Len(ir)) \X (1..3) :
                           /\ b <= Len(ir[j].args)
                           /\ ~(ir[j].op \in {"STORE", "CONST"} /\ b = 2)}}

(* C4: deadCodeElimination drops a STORE or CONST only when its           *)
(* destination is read by no instruction of the list; the source of a     *)
(* STORE and the argument list of a CALL count as reads.                  *)
C4_DceKeepsReadTemps ==
  DceRan =>
    \A i \in 1..Len(passIn) :
      (passIn[i].op \in {"STORE", "CONST"} /\ Arg(passIn[i], 1) \in ReadNames(passIn))
        => passIn[i] \in Range(optimized)

(* C5: deadCodeElimination never removes a STORE into a user variable     *)
(* (a name the IR generator did not create), whatever its spelling.       *)
C5_DceKeepsNamedStores ==
  DceRan =>
    \A i \in 1..Len(passIn) :
      (/\ passIn[i].op = "STORE"
       /\ IsString(Arg(passIn[i], 1))
       /\ Arg(passIn[i], 1).s \notin TempNames)
        => passIn[i] \in Range(optimized)

(* the label operand of every jump of ir *)
TargetedLabels(ir) ==
  {ir[i].args[Len(ir[i].args)] : i \in {j \in 1..Len(ir) : ir[j].op \in JumpOps}}

(* C6: deadCodeElimination never removes a LABEL that a jump of its       *)
(* output targets, and removes every LABEL that no jump of the list       *)
(* targets.                                                               *)
C6_DceLabels ==
  DceRan =>
    \A i \in 1..Len(passIn) :
      passIn[i].op = "LABEL" =>
        /\ Arg(passIn[i], 0) \in TargetedLabels(optimized)
             => passIn[i] \in Range(optimized)
        /\ Arg(passIn[i], 0) \notin TargetedLabels(passIn)
             => passIn[i] \notin Range(optimized)

C6_Witness ==
  /\ DceRan
  /\ \E i, j \in 1..Len(passIn) :
       /\ passIn[i].op = "LABEL" /\ passIn[j].op = "LABEL"
       /\ Arg(passIn[i], 0) \in TargetedLabels(optimized)
       /\ passIn[i] \in Range(optimized)
       /\ passIn[j] \notin Range(optimized)

(* C7: optimize is idempotent: every pass reports no change on a list     *)
(* optimize returned, and optimize called on it returns it.               *)
C7_Idempotent ==
  optPc = "return" =>
    /\ \A i \in 1..NumPasses : ~Pass(i, optimized).changed
    /\ optCall = 2 => optimized = optFirst

C7_Witness ==
  /\ optCall = 2 /\ optPc = "return"
  /\ optFirst # optInput /\ optFirst # <<>>
  /\ optimized = optFirst

(***************************************************************************)
(* Claims about the Lexer, checked under LexSpec.                          *)
(***************************************************************************)
Last(q) == q[Len(q)]

(* the column of the character at index i (from 1) of the text src: one   *)
(* more than the number of characters between it and the start of its     *)
(* line                                                                   *)
ColumnOf(src, i) ==
  LET newlines == {j \in 1..(i - 1) : CharAt(src, j) = "\n"}
      lineStart == IF newlines = {} THEN 0
                   ELSE CHOOSE j \in newlines : \A m \in newlines : m <= j
  IN i - lineStart

(* C8: no name createTemp returns is a text the tokenizer accepts as a    *)
(* user identifier.                                                       *)
C8_TempsAreNotIdentifiers ==
  \A i \in 1..Len(tokens) :
    tokens[i].type = "IDENTIFIER" => tokens[i].value \notin TempNames

OneCharKind == [c \in {"=", "!", "<", ">"} |->
  CASE c = "=" -> "EQUAL" [] c = "!" -> "BANG" [] c = "<" -> "LESS"
    [] c = ">" -> "GREATER"]

TwoCharKind == [c \in {"=", "!", "<", ">"} |->
  CASE c = "=" -> "EQUAL_EQUAL" [] c = "!" -> "BANG_EQUAL"
    [] c = "<" -> "LESS_EQUAL" [] c = ">" -> "GREATER_EQUAL"]

(* C9: at =, !, < or > followed by =, scanToken consumes those two        *)
(* characters and emits one token with the two-character kind and text;   *)
(* at a lone =, !, < or > it consumes one character and emits the         *)
(* one-character token with its one-character text.                       *)
C9_OperatorStep ==
  (lexPc = "scan" /\ position < Len(source)
     /\ CharAt(source, position + 1) \in DOMAIN OneCharKind)
  => LET c == CharAt(source, position + 1)
         two == position + 2 <= Len(source) /\ CharAt(source, position + 2) = "="
     IN /\ lexPc' = "scan"
        /\ Len(tokens') = Len(tokens) + 1
        /\ position' = position + (IF two THEN 2 ELSE 1)
        /\ Last(tokens').type = (IF two THEN TwoCharKind[c] ELSE OneCharKind[c])
        /\ Last(tokens').value = (IF two THEN c \o "=" ELSE c)

C9_TwoCharOperators == [][C9_OperatorStep]_vars

(* C10: the column of every token scanToken emits is the column of the    *)
(* first character of its lexeme.                                         *)
C10_ColumnStep ==
  (Len(tokens') > Len(tokens) /\ Last(tokens').type # "EOF")
    => Last(tokens').column = ColumnOf(source, position + 1)

C10_TokenColumn == [][C10_ColumnStep]_vars

(* C11: every token tokenize has added has line >= 1 and column >= 1,     *)
(* string literals with embedded newlines included.                       *)
C11_TokenPositions ==
  \A i \in 1..Len(tokens) : tokens[i].line >= 1 /\ tokens[i].column >= 1

(* C29: tokenize returns for a && b and for a || b, with an AND / OR token *)
(* between the two identifiers.                                            *)
C29_LogicalOperatorTokens ==
  \A op \in {"&&", "||"} :
    (lexPc \in {"done", "error"} /\ source = "a " \o op \o " b")
      => /\ lexPc = "done"
         /\ Len(tokens) = 4
         /\ tokens[2].type = (IF op = "&&" THEN "AND" ELSE "OR")

(***************************************************************************)
(* Claims about Compiler.compile, checked under CompSpec.                  *)
(***************************************************************************)

(* C1: the result of compile(s) does not depend on the calls made before   *)
(* it on the same Compiler: a call that returns gives what the first call  *)
(* of a new Compiler gives for the same source (the same diagnostics when  *)
(* that one stops before optimization, the same tokens, ast and ir when it *)
(* goes on), and compiling the same source twice in a row gives the same   *)
(* result both times.                                                      *)
SameFirstHalf(result, f) ==
  IF f.returned THEN result = f.result
  ELSE /\ "ir" \in DOMAIN result
       /\ result.tokens = f.result.tokens
       /\ result.ast = f.result.ast
       /\ result.ir = f.result.ir

C1_CompileIndependentOfHistory ==
  compPc = "returned" =>
    /\ SameFirstHalf(compResult,
                     CompileFirstHalf(NewSemanticAnalyzer, NewIRGenerator, compSource))
    /\ (compCalls >= 2 /\ prevSource = compSource) => compResult = prevResult

(* the line of the character at index i (from 1) of the text src *)
LineOf(src, i) == 1 + Cardinality({j \in 1..(i - 1) : CharAt(src, j) = "\n"})

(* the LexicalError err is about a character of src and carries its line  *)
(* and column: the character the message names, the last one consumed     *)
(* (at index pos), or the opening quote of an unterminated string         *)
LocatesLexicalFault(src, pos, err) ==
  \E i \in 1..Len(src) :
    /\ LineOf(src, i) = err.line
    /\ ColumnOf(src, i) = err.column
    /\ \/ i = pos /\ err.message = "Unexpected character: " \o CharAt(src, i)
       \/ err.message = "Unterminated string" /\ CharAt(src, i) = "\""

(* result is what compile returns when the phase that failed is the one   *)
(* L (the lexer after tokenize), P (the outcome of parse) and the result  *)
(* itself show                                                            *)
OneDiagnosticOfPhase(result, src, pos, L, P) ==
  /\ L.error # NoLexError =>
       /\ result = [success |-> FALSE,
                    errors |-> <<[phase |-> "Lexical Analysis",
                                  message |-> L.error.message,
                                  line |-> L.error.line,
                                  column |-> L.error.column]>>]
       /\ LocatesLexicalFault(src, pos, L.error)
  /\ (L.error = NoLexError /\ ~P.ok) =>
       result = [success |-> FALSE, tokens |-> L.tokens,
                 errors |-> <<[phase |-> "Syntax Analysis",
                               message |-> P.error.message,
                               line |-> P.error.token.line,
                               column |-> P.error.token.column]>>]
  /\ ("ast" \in DOMAIN result /\ "ir" \notin DOMAIN result /\ errors = <<>>) =>
       /\ ~result.success
       /\ Len(result.errors) = 1
       /\ result.errors[1].phase = "IR Generation"
       /\ DOMAIN result = {"success", "errors", "tokens", "ast"}
  /\ ("optimizedIr" \in DOMAIN result /\ "code" \notin DOMAIN result) =>
       /\ ~result.success
       /\ Len(result.errors) = 1
       /\ result.errors[1].phase = "Code Generation"

(* C16: when tokenizing, parsing, IR generation or code generation fails,  *)
(* compile returns success = false with exactly one diagnostic, tagged     *)
(* with that phase; a lexical or syntax diagnostic carries the line and    *)
(* column of the offending character or token.                             *)
C16_OneDiagnosticPerFailure ==
  compPc = "returned" =>
    OneDiagnosticOfPhase(compResult, compSource, position, tokenize(compSource),
                         parse(tokenize(compSource).tokens))

(* C17: when analyze returns n > 0 errors, compile returns success = false *)
(* with n diagnostics in the order of analyze, all tagged "Semantic        *)
(* Analysis" and without line or column; tokens and ast are attached, ir,  *)
(* optimizedIr and code are not.                                           *)
C17_SemanticErrorsStop ==
  (compPc = "returned" /\ "ast" \in DOMAIN compResult /\ Len(errors) > 0)
    => compResult =
         [success |-> FALSE,
          tokens |-> tokens,
          ast |-> parseOut.node,
          errors |-> [i \in 1..Len(errors) |->
                        [phase |-> "Semantic Analysis",
                         message |-> errors[i].message]]]

C17_Witness ==
  /\ compPc = "returned"
  /\ Len(errors) >= 2
  /\ Len(compResult.errors) = Len(errors)
  /\ errors[1].message # errors[2].message
  /\ "ast" \in DOMAIN compResult

(* the lines of the generated code that open a function of the program *)
FunctionLines(lines) ==
  SelectSeq(lines, LAMBDA ln : StartsWith(ln, "function ")
                                 /\ ln # "function printValue(value) {")

(* C22: the first compile of the sample program on a Compiler returns      *)
(* success = true, no diagnostics, tokens, ast, ir, optimizedIr and code,  *)
(* and the code holds one function block for computeFactorial and one for  *)
(* executeMain.                                                            *)
C22_SampleCompiles ==
  (compPc = "returned" /\ compCalls = 1 /\ compSource = sampleCode)
    => /\ compResult.success
       /\ compResult.errors = <<>>
       /\ DOMAIN compResult =
            {"success", "errors", "tokens", "ast", "ir", "optimizedIr", "code"}
       /\ compResult.code = CodeOf([output |-> output])
       /\ FunctionLines(output) =
            <<"function computeFactorial(n) {", "function executeMain() {">>

C22_Witness ==
  /\ compPc = "returned"
  /\ compCalls = 1
  /\ compSource = sampleCode
  /\ "code" \in DOMAIN compResult

(* constantPropagation is the third pass: it has just run on passIn *)
AfterPropagation == optPc = "for" /\ passI = 4

EntryMarker(instrs) ==
  \E i \in DOMAIN instrs : instrs[i].op \in {"BLOCK_START", "FUNCTION_START"}

(* C26: constantPropagation keeps the known constants across BLOCK_END and *)
(* FUNCTION_END and forgets them at BLOCK_START and FUNCTION_START: the    *)
(* LOAD of x after the end marker of the block in which x became the       *)
(* constant v is rewritten to CONST v if no entry marker lies between,     *)
(* and stays a LOAD if one does.                                           *)
C26_ConstantsLeak ==
  \A v \in LeakValues, end \in LeakEnds, between \in LeakBetween :
    (AfterPropagation /\ passIn = LeakInput(v, end, between))
      => /\ Len(optimized) = Len(passIn)
         /\ optimized[Len(optimized)] =
              IF EntryMarker(between) THEN Instr("LOAD", <<Str("x"), T1>>)
              ELSE Instr("CONST", <<v, T1>>)

C26_Witness ==
  /\ AfterPropagation
  /\ passIn = LeakInput(Num(2), Instr("FUNCTION_END", <<Str("f")>>),
                        <<Instr("BLOCK_END", <<>>)>>)
  /\ optimized[Len(optimized)] = Instr("CONST", <<Num(2), T1>>)

(* the operand an instruction writes, or the label it names; Undefined for *)
(* the instructions that have neither                                      *)
Destination(instr) ==
  CASE instr.op \in {"CONST", "STORE", "LOAD", "NEG", "NOT", "COPY"} -> Arg(instr, 1)
    [] instr.op \in BinaryOps \cup {"CALL", "CALL_INDIRECT"} -> Arg(instr, 2)
    [] instr.op \in {"LABEL", "JUMP"} -> Arg(instr, 0)
    [] instr.op \in {"JUMP_IF_TRUE", "JUMP_IF_FALSE"} -> Arg(instr, 1)
    [] OTHER -> Undefined

(* C27: constantPropagation returns a list as long as its input in which   *)
(* every instruction has the destination operand, and every LABEL and jump *)
(* the label name, of the instruction at the same place of the input.      *)
C27_DestinationsKept ==
  AfterPropagation =>
    /\ Len(optimized) = Len(passIn)
    /\ \A i \in DOMAIN passIn : Destination(optimized[i]) = Destination(passIn[i])

(* the binary operations of an instruction list, in order *)
BinaryOpsOf(ir) ==
  LET found == SelectSeq(ir, LAMBDA instr : instr.op \in BinaryOps)
  IN [i \in DOMAIN found |-> found[i].op]

(* C28: the first compile of var a = 1; var b = a op 2; on a Compiler, for *)
(* each of the ten binary operators, passes IR generation, and the one     *)
(* binary operation of the IR is the opcode of op.                         *)
C28_OperatorLowering ==
  \A op \in BinaryOperators :
    (compPc = "returned" /\ compCalls = 1 /\ compSource = BinaryText(op))
      => /\ "ir" \in DOMAIN compResult
         /\ BinaryOpsOf(compResult.ir) = <<Opcode[op]>>

====
